---- MODULE Spec2Model ----
(***************************************************************************)
(* jsonkit / Harmony: the query matcher (Query), the fluent chain builder  *)
(* (Chain) and the classic database facade (JSONKit), as state machines    *)
(* over JavaScript values.                                                 *)
(***************************************************************************)
EXTENDS Integers, Sequences, FiniteSets, TLC

(***************************************************************************)
(* JavaScript values.  Every value is a record of one shape:               *)
(*   t  its type tag (typeof, with null and array told apart),             *)
(*   n  the number (or 0/1 for a boolean),                                 *)
(*   s  the characters of a string, one one-character string each,         *)
(*   e  the own enumerable properties of an object or array, in            *)
(*      Object.entries order, each [k |-> key, v |-> value],               *)
(*   r  the identity of an object or array: two objects are === exactly    *)
(*      when they are the same object; r = 0 is a literal written by the   *)
(*      caller, which is no object of the database.                        *)
(* The number NaN is the number whose s is not empty.                      *)
(***************************************************************************)
Undefined == [t |-> "undefined", n |-> 0, s |-> <<>>, e |-> <<>>, r |-> 0]
Null == [t |-> "null", n |-> 0, s |-> <<>>, e |-> <<>>, r |-> 0]
Bool(b) == [t |-> "boolean", n |-> IF b THEN 1 ELSE 0, s |-> <<>>, e |-> <<>>, r |-> 0]
Num(i) == [t |-> "number", n |-> i, s |-> <<>>, e |-> <<>>, r |-> 0]
Str(cs) == [t |-> "string", n |-> 0, s |-> cs, e |-> <<>>, r |-> 0]
Obj(entries) == [t |-> "object", n |-> 0, s |-> <<>>, e |-> entries, r |-> 0]
P(key, val) == [k |-> key, v |-> val]
NotANumber == [Num(0) EXCEPT !.s = <<"N", "a", "N">>]
IsNaN(v) == v.t = "number" /\ v.s /= <<>>

\* The characters the model's strings are made of, in ascending order of
\* their UTF-16 code unit; Code keeps that order.
AsciiOrder ==
  << " ", "\"", "$", "+", ",", "-", "0", "1", "2", "3", "4", "5", "6", "7",
     "8", "9", ":", "N", "O", "W", "[", "]", "a", "b", "c", "d", "e", "f", "g",
     "h", "i", "j", "l", "n", "o", "q", "r", "s", "t", "u", "w", "x", "y",
     "z", "{", "}" >>
Code(c) == CHOOSE i \in 1..Len(AsciiOrder) : AsciiOrder[i] = c
Digits == <<"0", "1", "2", "3", "4", "5", "6", "7", "8", "9">>
IsDigit(c) == \E i \in 1..10 : Digits[i] = c
DigitVal(c) == (CHOOSE i \in 1..10 : Digits[i] = c) - 1

RECURSIVE NatToString(_)
NatToString(i) ==
  IF i < 10 THEN <<Digits[i + 1]>>
  ELSE NatToString(i \div 10) \o <<Digits[(i % 10) + 1]>>
\* Number::toString for the integers
NumberToString(i) == IF i < 0 THEN <<"-">> \o NatToString(0 - i) ELSE NatToString(i)

\* A number or NaN
NaN == [nan |-> TRUE, v |-> 0]
Fin(i) == [nan |-> FALSE, v |-> i]

RECURSIVE DigitsValue(_)
DigitsValue(cs) ==
  IF cs = <<>> THEN 0
  ELSE 10 * DigitsValue(SubSeq(cs, 1, Len(cs) - 1)) + DigitVal(cs[Len(cs)])
AllDigits(cs) == cs /= <<>> /\ \A i \in 1..Len(cs) : IsDigit(cs[i])
\* StringToNumber, for the decimal integer literals: "" is 0, an optional
\* sign and digits is that integer, any other text of the model is NaN.
StringToNumber(cs) ==
  IF cs = <<>> THEN Fin(0)
  ELSE IF AllDigits(cs) THEN Fin(DigitsValue(cs))
  ELSE IF cs[1] = "-" /\ AllDigits(Tail(cs)) THEN Fin(0 - DigitsValue(Tail(cs)))
  ELSE IF cs[1] = "+" /\ AllDigits(Tail(cs)) THEN Fin(DigitsValue(Tail(cs)))
  ELSE NaN

IsIndexKey(key) == AllDigits(key)
\* The elements of an array, in index order
ArrayElems(a) ==
  LET idx == SelectSeq(a.e, LAMBDA p : IsIndexKey(p.k))
  IN [i \in 1..Len(idx) |-> idx[i].v]
Arr(elems) ==
  [t |-> "array", n |-> 0, s |-> <<>>,
   e |-> [i \in 1..Len(elems) |-> P(NatToString(i - 1), elems[i])], r |-> 0]

IsObjectLike(v) == v.t \in {"object", "array"}
\* typeof
TypeOf(v) ==
  CASE v.t = "undefined" -> "undefined"
    [] v.t = "boolean" -> "boolean"
    [] v.t = "number" -> "number"
    [] v.t = "string" -> "string"
    [] OTHER -> "object"
\* ToBoolean
Truthy(v) ==
  CASE v.t \in {"undefined", "null"} -> FALSE
    [] v.t = "boolean" -> v.n = 1
    [] v.t = "number" -> v.n /= 0 /\ ~IsNaN(v)
    [] v.t = "string" -> v.s /= <<>>
    [] OTHER -> TRUE

\* String(v) / ToString
RECURSIVE ToStringJS(_), JoinComma(_)
JoinComma(elems) ==
  IF elems = <<>> THEN <<>>
  ELSE LET x == elems[Len(elems)]
           one == IF x.t \in {"undefined", "null"} THEN <<>> ELSE ToStringJS(x)
       IN IF Len(elems) = 1 THEN one
          ELSE JoinComma(SubSeq(elems, 1, Len(elems) - 1)) \o <<",">> \o one
ToStringJS(v) ==
  CASE v.t = "undefined" -> <<"u", "n", "d", "e", "f", "i", "n", "e", "d">>
    [] v.t = "null" -> <<"n", "u", "l", "l">>
    [] v.t = "boolean" ->
         IF v.n = 1 THEN <<"t", "r", "u", "e">> ELSE <<"f", "a", "l", "s", "e">>
    [] v.t = "number" -> IF IsNaN(v) THEN v.s ELSE NumberToString(v.n)
    [] v.t = "string" -> v.s
    [] v.t = "array" -> JoinComma(ArrayElems(v))
    [] OTHER ->
         <<"[", "o", "b", "j", "e", "c", "t", " ", "O", "b", "j", "e", "c", "t", "]">>

\* ToNumber (objects and arrays through their string form)
ToNumberJS(v) ==
  CASE v.t = "undefined" -> NaN
    [] v.t = "null" -> Fin(0)
    [] v.t \in {"boolean", "number"} -> IF IsNaN(v) THEN NaN ELSE Fin(v.n)
    [] OTHER -> StringToNumber(ToStringJS(v))

\* a === b
StrictEquals(a, b) ==
  /\ a.t = b.t
  /\ CASE a.t \in {"undefined", "null"} -> TRUE
       [] a.t \in {"boolean", "number"} -> a.n = b.n /\ ~IsNaN(a) /\ ~IsNaN(b)
       [] a.t = "string" -> a.s = b.s
       [] OTHER -> a.r = b.r /\ a.r /= 0

\* Code-unit order of two strings
RECURSIVE StringLess(_, _)
StringLess(x, y) ==
  IF y = <<>> THEN FALSE
  ELSE IF x = <<>> THEN TRUE
  ELSE IF x[1] = y[1] THEN StringLess(Tail(x), Tail(y))
  ELSE Code(x[1]) < Code(y[1])

\* The abstract relational comparison a < b: "true", "false" or "undefined"
\* (a NaN operand)
LessThanJS(a, b) ==
  LET strA == a.t \in {"string", "array", "object"}
      strB == b.t \in {"string", "array", "object"}
  IN IF strA /\ strB
     THEN IF StringLess(ToStringJS(a), ToStringJS(b)) THEN "true" ELSE "false"
     ELSE LET x == ToNumberJS(a)
              y == ToNumberJS(b)
          IN IF x.nan \/ y.nan THEN "undefined"
             ELSE IF x.v < y.v THEN "true" ELSE "false"
Lt(a, b) == LessThanJS(a, b) = "true"
Gt(a, b) == LessThanJS(b, a) = "true"
Lte(a, b) == LessThanJS(b, a) = "false"
Gte(a, b) == LessThanJS(a, b) = "false"

\* String.prototype.includes / startsWith / endsWith
IsPrefix(x, y) == Len(x) <= Len(y) /\ SubSeq(y, 1, Len(x)) = x
StringIncludes(hay, needle) ==
  \E i \in 0..(Len(hay) - Len(needle)) : SubSeq(hay, i + 1, i + Len(needle)) = needle
StringStartsWith(hay, needle) == IsPrefix(needle, hay)
StringEndsWith(hay, needle) ==
  Len(needle) <= Len(hay)
  /\ SubSeq(hay, Len(hay) - Len(needle) + 1, Len(hay)) = needle

\* SameValueZero: === but for NaN, which is the same value as NaN
SameValueZero(a, b) == StrictEquals(a, b) \/ (IsNaN(a) /\ IsNaN(b))
\* Array.prototype.includes
ArrayIncludes(a, x) ==
  LET el == ArrayElems(a) IN \E i \in 1..Len(el) : SameValueZero(el[i], x)

\* JSON.stringify: the text, or undefined (def = FALSE) when there is none.
\* The model's strings hold no character that JSON escapes.
RECURSIVE JSONText(_), JSONElems(_), JSONProps(_)
JSONElems(elems) ==
  IF elems = <<>> THEN <<>>
  ELSE LET j == JSONText(elems[Len(elems)])
           one == IF j.def THEN j.s ELSE <<"n", "u", "l", "l">>
       IN IF Len(elems) = 1 THEN one
          ELSE JSONElems(SubSeq(elems, 1, Len(elems) - 1)) \o <<",">> \o one
JSONProps(props) ==
  IF props = <<>> THEN <<>>
  ELSE LET p == props[Len(props)]
           rest == JSONProps(SubSeq(props, 1, Len(props) - 1))
           j == JSONText(p.v)
           one == <<"\"">> \o p.k \o <<"\"", ":">> \o j.s
       IN IF ~j.def THEN rest
          ELSE IF rest = <<>> THEN one
          ELSE rest \o <<",">> \o one
JSONText(v) ==
  CASE v.t = "undefined" -> [def |-> FALSE, s |-> <<>>]
    [] v.t = "string" -> [def |-> TRUE, s |-> <<"\"">> \o v.s \o <<"\"">>]
    [] v.t = "array" ->
         [def |-> TRUE, s |-> <<"[">> \o JSONElems(ArrayElems(v)) \o <<"]">>]
    [] v.t = "object" -> [def |-> TRUE, s |-> <<"{">> \o JSONProps(v.e) \o <<"}">>]
    [] OTHER ->
         [def |-> TRUE, s |-> IF IsNaN(v) THEN <<"n", "u", "l", "l">> ELSE ToStringJS(v)]

\* obj[key] for an own property; undefined when there is none
Get(obj, key) ==
  IF \E i \in 1..Len(obj.e) : obj.e[i].k = key
  THEN obj.e[CHOOSE i \in 1..Len(obj.e) : obj.e[i].k = key].v
  ELSE Undefined
\* obj[key] = val: the property keeps its place, a new one goes last
Put(obj, key, val) ==
  IF \E i \in 1..Len(obj.e) : obj.e[i].k = key
  THEN [obj EXCEPT !.e = [i \in 1..Len(obj.e) |->
                            IF obj.e[i].k = key THEN P(key, val) ELSE obj.e[i]]]
  ELSE [obj EXCEPT !.e = Append(obj.e, P(key, val))]


(***************************************************************************)
(* Query: the plain-query matcher                                          *)
(***************************************************************************)
k_and == <<"$", "a", "n", "d">>
k_or == <<"$", "o", "r">>
k_not == <<"$", "n", "o", "t">>
k_eq == <<"$", "e", "q">>
k_ne == <<"$", "n", "e">>
k_gt == <<"$", "g", "t">>
k_gte == <<"$", "g", "t", "e">>
k_lt == <<"$", "l", "t">>
k_lte == <<"$", "l", "t", "e">>
k_in == <<"$", "i", "n">>
k_nin == <<"$", "n", "i", "n">>
k_exists == <<"$", "e", "x", "i", "s", "t", "s">>
k_regex == <<"$", "r", "e", "g", "e", "x">>
k_contains == <<"$", "c", "o", "n", "t", "a", "i", "n", "s">>
k_startsWith == <<"$", "s", "t", "a", "r", "t", "s", "W", "i", "t", "h">>
k_endsWith == <<"$", "e", "n", "d", "s", "W", "i", "t", "h">>
k_xyz == <<"$", "x", "y", "z">>
k_zyx == <<"$", "z", "y", "x">>

\* key.startsWith('$')
StartsWithDollar(key) == StringStartsWith(key, <<"$">>)

\* new RegExp(pattern).test(text) for a pattern of letters and digits only,
\* which matches itself anywhere in the text.  The query pools give $regex
\* no other operand.
RegexTest(pattern, text) == StringIncludes(text, pattern.s)

\* The operators handleFieldOperator and evaluateOperator have a case for
KnownFieldOperators ==
  {k_eq, k_ne, k_gt, k_gte, k_lt, k_lte, k_in, k_nin, k_exists, k_regex,
   k_contains, k_startsWith, k_endsWith}
\* Variant of handleFieldOperator whose default case is false
Query_handleFieldOperator_unknownFails(docValue, operator, queryValue) ==
  /\ operator \in KnownFieldOperators
  /\ CASE operator = k_eq -> StrictEquals(docValue, queryValue)
       [] operator = k_ne -> ~StrictEquals(docValue, queryValue)
       [] operator = k_gt -> Gt(docValue, queryValue)
       [] operator = k_gte -> Gte(docValue, queryValue)
       [] operator = k_lt -> Lt(docValue, queryValue)
       [] operator = k_lte -> Lte(docValue, queryValue)
       [] operator = k_in ->
            queryValue.t = "array" /\ ArrayIncludes(queryValue, docValue)
       [] operator = k_nin ->
            queryValue.t = "array" /\ ~ArrayIncludes(queryValue, docValue)
       [] operator = k_exists ->
            IF Truthy(queryValue) THEN docValue.t /= "undefined"
            ELSE docValue.t = "undefined"
       [] operator = k_regex -> RegexTest(queryValue, ToStringJS(docValue))
       [] operator = k_contains ->
            StringIncludes(ToStringJS(docValue), ToStringJS(queryValue))
       [] operator = k_startsWith ->
            StringStartsWith(ToStringJS(docValue), ToStringJS(queryValue))
       [] operator = k_endsWith ->
            StringEndsWith(ToStringJS(docValue), ToStringJS(queryValue))
\* Query.handleFieldOperator
Query_handleFieldOperator(docValue, operator, queryValue) ==
  CASE operator = k_eq -> StrictEquals(docValue, queryValue)
    [] operator = k_ne -> ~StrictEquals(docValue, queryValue)
    [] operator = k_gt -> Gt(docValue, queryValue)
    [] operator = k_gte -> Gte(docValue, queryValue)
    [] operator = k_lt -> Lt(docValue, queryValue)
    [] operator = k_lte -> Lte(docValue, queryValue)
    [] operator = k_in ->
         queryValue.t = "array" /\ ArrayIncludes(queryValue, docValue)
    [] operator = k_nin ->
         queryValue.t = "array" /\ ~ArrayIncludes(queryValue, docValue)
    [] operator = k_exists ->
         IF Truthy(queryValue) THEN docValue.t /= "undefined"
         ELSE docValue.t = "undefined"
    [] operator = k_regex -> RegexTest(queryValue, ToStringJS(docValue))
    [] operator = k_contains ->
         StringIncludes(ToStringJS(docValue), ToStringJS(queryValue))
    [] operator = k_startsWith ->
         StringStartsWith(ToStringJS(docValue), ToStringJS(queryValue))
    [] operator = k_endsWith ->
         StringEndsWith(ToStringJS(docValue), ToStringJS(queryValue))
    [] OTHER -> TRUE

\* Query.matchNested: the first $-key of the mapping decides; a mapping with
\* no $-key is compared by its JSON text.
Query_matchNested(docValue, queryValue) ==
  LET ops == SelectSeq(queryValue.e, LAMBDA p : StartsWithDollar(p.k))
      jd == JSONText(docValue)
      jq == JSONText(queryValue)
  IN IF ops /= <<>>
     THEN Query_handleFieldOperator(docValue, ops[1].k, ops[1].v)
     ELSE jd.def = jq.def /\ jd.s = jq.s

\* Query.matchOne and Query.handleOperator.  The loop over the query's
\* entries returns false at the first entry that fails: the conjunction of
\* the entries.  $and and $or are given arrays by the query pools.
RECURSIVE Query_matchOne(_, _), Query_handleOperator(_, _, _)
\* Variants of handleOperator, to test that the properties of $and, of $or
\* and of $not tell them from the code: $and as `some`, $or as `every`, $not
\* without its negation
Query_handleOperator_andAsSome(doc, operator, value) ==
  CASE operator = k_and ->
         \E i \in 1..Len(ArrayElems(value)) : Query_matchOne(doc, ArrayElems(value)[i])
    [] operator = k_or ->
         \E i \in 1..Len(ArrayElems(value)) : Query_matchOne(doc, ArrayElems(value)[i])
    [] operator = k_not -> ~Query_matchOne(doc, value)
    [] OTHER -> TRUE
Query_handleOperator_orAsEvery(doc, operator, value) ==
  CASE operator = k_and ->
         \A i \in 1..Len(ArrayElems(value)) : Query_matchOne(doc, ArrayElems(value)[i])
    [] operator = k_or ->
         \A i \in 1..Len(ArrayElems(value)) : Query_matchOne(doc, ArrayElems(value)[i])
    [] operator = k_not -> ~Query_matchOne(doc, value)
    [] OTHER -> TRUE
Query_handleOperator_notAsIs(doc, operator, value) ==
  CASE operator = k_and ->
         \A i \in 1..Len(ArrayElems(value)) : Query_matchOne(doc, ArrayElems(value)[i])
    [] operator = k_or ->
         \E i \in 1..Len(ArrayElems(value)) : Query_matchOne(doc, ArrayElems(value)[i])
    [] operator = k_not -> Query_matchOne(doc, value)
    [] OTHER -> TRUE
Query_handleOperator(doc, operator, value) ==
  CASE operator = k_and ->
         \A i \in 1..Len(ArrayElems(value)) : Query_matchOne(doc, ArrayElems(value)[i])
    [] operator = k_or ->
         \E i \in 1..Len(ArrayElems(value)) : Query_matchOne(doc, ArrayElems(value)[i])
    [] operator = k_not -> ~Query_matchOne(doc, value)
    [] OTHER -> TRUE
\* Variant of matchOne that needs an entry to match
Query_matchOne_needsEntry(doc, query) ==
  /\ query.e /= <<>>
  /\ \A i \in 1..Len(query.e) :
       LET key == query.e[i].k
           value == query.e[i].v
       IN IF StartsWithDollar(key) THEN Query_handleOperator(doc, key, value)
          ELSE IF value.t = "object" THEN Query_matchNested(Get(doc, key), value)
          ELSE StrictEquals(Get(doc, key), value)
Query_matchOne(doc, query) ==
  \A i \in 1..Len(query.e) :
    LET key == query.e[i].k
        value == query.e[i].v
    IN IF StartsWithDollar(key) THEN Query_handleOperator(doc, key, value)
       ELSE IF value.t = "object" THEN Query_matchNested(Get(doc, key), value)
       ELSE StrictEquals(Get(doc, key), value)

\* Query.match
Query_match(collection, query) ==
  SelectSeq(collection, LAMBDA doc : Query_matchOne(doc, query))

(***************************************************************************)
(* Chain: the fluent builder                                               *)
(***************************************************************************)
NoSort == [set |-> FALSE, field |-> <<>>, direction |-> "asc"]
NoLimit == [isNull |-> TRUE, n |-> 0]
\* constructor
Chain_new(name, saveFn) ==
  [made |-> TRUE, collectionName |-> name, saveFn |-> saveFn, query |-> Obj(<<>>),
   sortConfig |-> NoSort, limitCount |-> NoLimit, skipCount |-> 0,
   currentField |-> Null, isOrCondition |-> FALSE]
NoChain == [Chain_new("", FALSE) EXCEPT !.made = FALSE]

\* where / and / or: each sets the current field
Chain_where(c, field) == [c EXCEPT !.currentField = Str(field)]
Chain_and(c, field) == [c EXCEPT !.currentField = Str(field)]
\* or also sets isOrCondition, a property the constructor does not create
Chain_or(c, field) == [c EXCEPT !.currentField = Str(field), !.isOrCondition = TRUE]

\* Variant of the guard of addCondition that never throws
Chain_addConditionThrows_never(c) == FALSE
\* addCondition throws when no field is selected
Chain_addConditionThrows(c) == ~Truthy(c.currentField)
\* addCondition
\* Not the code: an operator takes the place of the field's whole condition
Chain_addCondition_replaces(c, operator, value) ==
  [c EXCEPT !.query = Put(c.query, c.currentField.s, IF operator = k_eq THEN value ELSE Obj(<<P(operator, value)>>))]
Chain_addCondition(c, operator, value) ==
  LET f == c.currentField.s
      q1 == IF ~Truthy(Get(c.query, f)) THEN Put(c.query, f, Obj(<<>>)) ELSE c.query
      q2 == IF TypeOf(Get(q1, f)) /= "object" THEN Put(q1, f, Obj(<<>>)) ELSE q1
  IN IF operator = k_eq THEN [c EXCEPT !.query = Put(q1, f, value)]
     ELSE [c EXCEPT !.query = Put(q2, f, Put(Get(q2, f), operator, value))]

Chain_sort(c, field, direction) ==
  [c EXCEPT !.sortConfig = [set |-> TRUE, field |-> field, direction |-> direction]]
Chain_limit(c, count) == [c EXCEPT !.limitCount = [isNull |-> FALSE, n |-> count]]
Chain_skip(c, count) == [c EXCEPT !.skipCount = count]

\* Variant of evaluateOperator in which $ne holds of every value
Chain_evaluateOperator_neAlways(docValue, operator, queryValue) ==
  operator = k_ne \/ Query_handleFieldOperator(docValue, operator, queryValue)
\* Variant of evaluateOperator in which $nin is the negation of $in
Chain_evaluateOperator_ninNegatesIn(docValue, operator, queryValue) ==
  IF operator = k_nin THEN ~Query_handleFieldOperator(docValue, k_in, queryValue)
  ELSE Query_handleFieldOperator(docValue, operator, queryValue)
\* Chain.evaluateOperator
Chain_evaluateOperator(docValue, operator, queryValue) ==
  CASE operator = k_eq -> StrictEquals(docValue, queryValue)
    [] operator = k_ne -> ~StrictEquals(docValue, queryValue)
    [] operator = k_gt -> Gt(docValue, queryValue)
    [] operator = k_gte -> Gte(docValue, queryValue)
    [] operator = k_lt -> Lt(docValue, queryValue)
    [] operator = k_lte -> Lte(docValue, queryValue)
    [] operator = k_in ->
         queryValue.t = "array" /\ ArrayIncludes(queryValue, docValue)
    [] operator = k_nin ->
         queryValue.t = "array" /\ ~ArrayIncludes(queryValue, docValue)
    [] operator = k_exists ->
         IF Truthy(queryValue) THEN docValue.t /= "undefined"
         ELSE docValue.t = "undefined"
    [] operator = k_regex -> RegexTest(queryValue, ToStringJS(docValue))
    [] operator = k_contains ->
         StringIncludes(ToStringJS(docValue), ToStringJS(queryValue))
    [] operator = k_startsWith ->
         StringStartsWith(ToStringJS(docValue), ToStringJS(queryValue))
    [] operator = k_endsWith ->
         StringEndsWith(ToStringJS(docValue), ToStringJS(queryValue))
    [] OTHER -> TRUE

\* Not the code: after or() one field's condition is enough
Chain_matchDocument_orWhenAsked(c, doc) ==
  LET holds(i) ==
        LET docValue == Get(doc, c.query.e[i].k)
            condition == c.query.e[i].v
        IN IF TypeOf(condition) /= "object" \/ condition.t = "null"
           THEN StrictEquals(docValue, condition)
           ELSE \A j \in 1..Len(condition.e) :
                  Chain_evaluateOperator(docValue, condition.e[j].k, condition.e[j].v)
  IN IF c.isOrCondition /\ Len(c.query.e) > 0 THEN \E i \in 1..Len(c.query.e) : holds(i)
     ELSE \A i \in 1..Len(c.query.e) : holds(i)
\* Chain.matchDocument
Chain_matchDocument(c, doc) ==
  \A i \in 1..Len(c.query.e) :
    LET docValue == Get(doc, c.query.e[i].k)
        condition == c.query.e[i].v
    IN IF TypeOf(condition) /= "object" \/ condition.t = "null"
       THEN StrictEquals(docValue, condition)
       ELSE \A j \in 1..Len(condition.e) :
              Chain_evaluateOperator(docValue, condition.e[j].k, condition.e[j].v)

\* Chain.executeQuery, on the chain's collection
Chain_executeQuery(c, collection) ==
  IF Len(c.query.e) = 0 THEN collection
  ELSE SelectSeq(collection, LAMBDA doc : Chain_matchDocument(c, doc))

\* The comparator of Chain.applySorting
Chain_compare(a, b, cfg) ==
  LET modifier == IF cfg.direction = "desc" THEN 0 - 1 ELSE 1
      aVal == Get(a, cfg.field)
      bVal == Get(b, cfg.field)
  IN IF Gt(aVal, bVal) THEN modifier
     ELSE IF Lt(aVal, bVal) THEN 0 - modifier
     ELSE 0

\* The comparators of Query.sort: for a field name, ascending; for a mapping
\* of fields to orders, the first field that tells the two documents apart
RECURSIVE Query_compareEntries(_, _, _)
Query_compareEntries(x, y, entries) ==
  IF entries = <<>> THEN 0
  ELSE LET aVal == Get(x, entries[1].k)
           bVal == Get(y, entries[1].k)
           order == entries[1].v
           modifier == IF order = Num(0 - 1) \/ order = Str(<<"d", "e", "s", "c">>)
                       THEN 0 - 1 ELSE 1
       IN IF Gt(aVal, bVal) THEN modifier
          ELSE IF Lt(aVal, bVal) THEN 0 - modifier
          ELSE Query_compareEntries(x, y, Tail(entries))
Query_compare(x, y, sortBy) ==
  IF sortBy.t = "string"
  THEN IF Gt(Get(x, sortBy.s), Get(y, sortBy.s)) THEN 1
       ELSE IF Lt(Get(x, sortBy.s), Get(y, sortBy.s)) THEN 0 - 1
       ELSE 0
  ELSE Query_compareEntries(x, y, sortBy.e)

\* The comparator a sort is given: Chain.applySorting's for a sort spec of a
\* chain, Query.sort's for [sortBy |-> its argument]
Comparator(x, y, cfg) ==
  IF "sortBy" \in DOMAIN cfg THEN Query_compare(x, y, cfg.sortBy)
  ELSE Chain_compare(x, y, cfg)

\* Array.prototype.sort with the comparator of cfg.  With a consistent
\* comparison function (ECMAScript, Array.prototype.sort) the result is the
\* one stable ordering, computed here by insertion; with an inconsistent one
\* the order is implementation-defined: any permutation.
Consistent(seq, cfg) ==
  LET S == 1..Len(seq)
  IN \A c \in {[i \in S |-> [j \in S |-> Comparator(seq[i], seq[j], cfg)]]} :
       /\ \A i \in S : c[i][i] = 0
       /\ \A i, j \in S : (c[i][j] = 0 => c[j][i] = 0) /\ (c[i][j] < 0 <=> c[j][i] > 0)
       /\ \A i, j, l \in S :
            /\ c[i][j] = 0 /\ c[j][l] = 0 => c[i][l] = 0
            /\ c[i][j] < 0 /\ c[j][l] < 0 => c[i][l] < 0
            /\ c[i][j] > 0 /\ c[j][l] > 0 => c[i][l] > 0
RECURSIVE InsertSorted(_, _, _), InsertionSort(_, _)
InsertSorted(sorted, d, cfg) ==
  IF sorted = <<>> THEN <<d>>
  ELSE IF Comparator(sorted[Len(sorted)], d, cfg) <= 0 THEN Append(sorted, d)
  ELSE Append(InsertSorted(SubSeq(sorted, 1, Len(sorted) - 1), d, cfg),
              sorted[Len(sorted)])
InsertionSort(seq, cfg) ==
  IF seq = <<>> THEN <<>>
  ELSE InsertSorted(InsertionSort(SubSeq(seq, 1, Len(seq) - 1), cfg), seq[Len(seq)], cfg)
AllOrders(seq) ==
  LET n == Len(seq)
      perms == {p \in [1..n -> 1..n] : \A i, j \in 1..n : i /= j => p[i] /= p[j]}
  IN {[i \in 1..n |-> seq[p[i]]] : p \in perms}
ArraySort(seq, cfg) ==
  IF Consistent(seq, cfg) THEN {InsertionSort(seq, cfg)} ELSE AllOrders(seq)

\* Chain.applySorting: the orders the sort can give
Chain_applySorting(c, results) == ArraySort(results, c.sortConfig)
\* Query.sort: the orders it can give; any other sortBy returns the collection
Query_sort(collection, sortBy) ==
  IF sortBy.t \in {"string", "object", "array"}
  THEN ArraySort(collection, [sortBy |-> sortBy])
  ELSE {collection}

\* Array.prototype.slice(start) and slice(0, end), for counts >= 0
SliceFrom(seq, start) == SubSeq(seq, start + 1, Len(seq))
SliceTo(seq, end) == SubSeq(seq, 1, IF end < Len(seq) THEN end ELSE Len(seq))

\* Variant of get that skips and limits before it sorts
Chain_get_sliceThenSort(c, collection) ==
  LET filtered == Chain_executeQuery(c, collection)
      skipped == IF c.skipCount > 0 THEN SliceFrom(filtered, c.skipCount) ELSE filtered
      limited == IF ~c.limitCount.isNull THEN SliceTo(skipped, c.limitCount.n) ELSE skipped
  IN IF c.sortConfig.set THEN Chain_applySorting(c, limited) ELSE {limited}
\* Chain.get: the results it can return on the collection
Chain_get(c, collection) ==
  LET filtered == Chain_executeQuery(c, collection)
      sorted == IF c.sortConfig.set THEN Chain_applySorting(c, filtered) ELSE {filtered}
      skipped(res) == IF c.skipCount > 0 THEN SliceFrom(res, c.skipCount) ELSE res
      limited(res) == IF ~c.limitCount.isNull THEN SliceTo(res, c.limitCount.n) ELSE res
  IN {limited(skipped(res)) : res \in sorted}

\* Chain.first, last, count, exists (the terminal, which the class defines
\* after the operator of the same name and so is the one the chain has),
\* pluck and sum, each from the result of get
FirstOrNull(results) == IF results /= <<>> /\ Truthy(results[1]) THEN results[1] ELSE Null
LastOrNull(results) ==
  IF results /= <<>> /\ Truthy(results[Len(results)]) THEN results[Len(results)] ELSE Null
Chain_pluck(results, field) == [i \in 1..Len(results) |-> Get(results[i], field)]
RECURSIVE SumNumbers(_)
SumNumbers(values) ==
  IF values = <<>> THEN 0
  ELSE SumNumbers(SubSeq(values, 1, Len(values) - 1))
       + (IF values[Len(values)].t = "number" THEN values[Len(values)].n ELSE 0)
Chain_sum(results, field) == SumNumbers(Chain_pluck(results, field))

\* Object.assign(target, source)
RECURSIVE ObjectAssign(_, _)
ObjectAssign(target, source) ==
  IF source.e = <<>> THEN target
  ELSE ObjectAssign(Put(target, source.e[1].k, source.e[1].v),
                    [source EXCEPT !.e = Tail(source.e)])

\* Array.prototype.indexOf, from 1; 0 when the object is not an element
IndexOf(collection, doc) ==
  IF \E i \in 1..Len(collection) : StrictEquals(collection[i], doc)
  THEN CHOOSE i \in 1..Len(collection) :
         /\ StrictEquals(collection[i], doc)
         /\ \A j \in 1..(i - 1) : ~StrictEquals(collection[j], doc)
  ELSE 0
SeqIncludes(seq, doc) == \E i \in 1..Len(seq) : StrictEquals(seq[i], doc)

\* Chain.update, given the results of get: the collection afterwards and the
\* count returned
RECURSIVE Chain_updateLoop(_, _, _)
Chain_updateLoop(collection, results, updates) ==
  IF results = <<>> THEN [docs |-> collection, count |-> 0]
  ELSE LET index == IndexOf(collection, results[1])
           after == IF index /= 0
                    THEN [collection EXCEPT
                            ![index] = ObjectAssign(collection[index], updates)]
                    ELSE collection
           rest == Chain_updateLoop(after, Tail(results), updates)
       IN [docs |-> rest.docs, count |-> rest.count + (IF index /= 0 THEN 1 ELSE 0)]
Chain_update(collection, results, updates) ==
  LET u == Chain_updateLoop(collection, results, updates)
  IN [docs |-> u.docs, count |-> u.count, saves |-> IF u.count > 0 THEN 1 ELSE 0]

\* Chain.updateOne, given the document first() returned
Chain_updateOne(collection, doc, updates) ==
  LET index == IndexOf(collection, doc)
  IN IF ~Truthy(doc) \/ index = 0 THEN [docs |-> collection, count |-> 0, saves |-> 0]
     ELSE [docs |-> [collection EXCEPT ![index] = ObjectAssign(collection[index], updates)],
           count |-> 1, saves |-> 1]

\* Variant of delete that always saves
Chain_delete_alwaysSaves(collection, results) ==
  LET kept == SelectSeq(collection, LAMBDA d : ~SeqIncludes(results, d))
  IN [docs |-> kept, count |-> Len(collection) - Len(kept), saves |-> 1]
\* Chain.delete, given the results of get
Chain_delete(collection, results) ==
  LET kept == SelectSeq(collection, LAMBDA d : ~SeqIncludes(results, d))
      deletedCount == Len(collection) - Len(kept)
  IN [docs |-> kept, count |-> deletedCount,
      saves |-> IF deletedCount > 0 THEN 1 ELSE 0]

\* Chain.deleteOne, given the document first() returned
Chain_deleteOne(collection, doc) ==
  LET index == IndexOf(collection, doc)
  IN IF ~Truthy(doc) \/ index = 0 THEN [docs |-> collection, count |-> 0, saves |-> 0]
     ELSE [docs |-> SubSeq(collection, 1, index - 1)
                      \o SubSeq(collection, index + 1, Len(collection)),
           count |-> 1, saves |-> 1]

(***************************************************************************)
(* JSONKit: the classic facade                                             *)
(***************************************************************************)
\* JSONKit.find
JSONKit_find(collection, query) ==
  IF Len(query.e) = 0 THEN collection ELSE Query_match(collection, query)

\* Variant of update that assigns to every document
JSONKit_update_everyDoc(collection, query, updates, auto) ==
  LET updatedCount ==
        Cardinality({i \in 1..Len(collection) : Query_matchOne(collection[i], query)})
  IN [docs |-> [i \in 1..Len(collection) |-> ObjectAssign(collection[i], updates)],
      count |-> updatedCount,
      saves |-> IF auto /\ updatedCount > 0 THEN 1 ELSE 0]
\* JSONKit.update
JSONKit_update(collection, query, updates, auto) ==
  LET hit(i) == Query_matchOne(collection[i], query)
      updatedCount == Cardinality({i \in 1..Len(collection) : hit(i)})
  IN [docs |-> [i \in 1..Len(collection) |->
                  IF hit(i) THEN ObjectAssign(collection[i], updates) ELSE collection[i]],
      count |-> updatedCount,
      saves |-> IF auto /\ updatedCount > 0 THEN 1 ELSE 0]

\* JSONKit.updateOne
JSONKit_updateOne(collection, query, updates, auto) ==
  LET hits == {i \in 1..Len(collection) : Query_matchOne(collection[i], query)}
      first == CHOOSE i \in hits : \A j \in hits : i <= j
  IN IF hits = {} THEN [docs |-> collection, count |-> 0, saves |-> 0]
     ELSE [docs |-> [collection EXCEPT ![first] = ObjectAssign(collection[first], updates)],
           count |-> 1, saves |-> IF auto THEN 1 ELSE 0]

\* JSONKit.delete
JSONKit_delete(collection, query, auto) ==
  LET kept == SelectSeq(collection, LAMBDA doc : ~Query_matchOne(doc, query))
      deletedCount == Len(collection) - Len(kept)
  IN [docs |-> kept, count |-> deletedCount,
      saves |-> IF auto /\ deletedCount > 0 THEN 1 ELSE 0]

\* JSONKit.deleteOne
JSONKit_deleteOne(collection, query, auto) ==
  LET hits == {i \in 1..Len(collection) : Query_matchOne(collection[i], query)}
      first == CHOOSE i \in hits : \A j \in hits : i <= j
  IN IF hits = {} THEN [docs |-> collection, count |-> 0, saves |-> 0]
     ELSE [docs |-> SubSeq(collection, 1, first - 1)
                      \o SubSeq(collection, first + 1, Len(collection)),
           count |-> 1, saves |-> IF auto THEN 1 ELSE 0]

(***************************************************************************)
(* The state: one database object and one chain built on it                *)
(***************************************************************************)
VARIABLES
  facade,    \* which object the caller holds: a JSONKit or a magic manager
  data,      \* the in-memory mapping: collection name -> documents, or absent
  loaded,    \* JSONKit.loaded / the manager's isLoaded
  autoSave,  \* options.autoSave
  chain,     \* the Chain the caller holds, with its accumulated state
  last,      \* the last call: its arguments, what it returned, the state before
  inp,       \* the arguments drawn for the matcher alone
  disk,      \* the file system: whether fs.writeFile resolves ("ok") or rejects
  saveTimeout,  \* the pending timer of a debounced save: "none", or who is
                \* given the failure of its write
  reported,  \* where the failure of a write went that no caller was given
  timers,    \* the timers set by setTimeout that were neither cleared nor run
  promises,  \* the promises the calls of save() returned, in the order of the calls
  written,   \* the database file: how often it was written, and the last content
  held       \* the sequence a caller was returned and kept: of which collection,
             \* and whether it is still the object data[name] holds

vars == <<facade, data, loaded, autoSave, chain, last, inp, disk, saveTimeout, reported, timers, promises, written, held>>
\* No save is pending and no failure was reported, on a file system that works
NoPromise == <<>>
NoFile == [writes |-> 0, content |-> [name \in {"users", "posts"} |-> [has |-> FALSE, docs |-> <<>>]]]
NoRef == [name |-> "", same |-> FALSE]
Idle == timers = {} /\ promises = NoPromise /\ written = NoFile /\ held = NoRef
\* The calls that assign a new sequence to data[name], or remove the entry;
\* the others work on the sequence data[name] holds
Reassigns == {"db.delete", "clear", "drop"}
Kept(rec) ==
  held' = IF rec.op \in Reassigns /\ rec.name = held.name THEN [held EXCEPT !.same = FALSE]
          ELSE held
Quiet == disk = "ok" /\ saveTimeout = "none" /\ reported = "nothing" /\ Idle

CollNames == {"users", "posts"}
f == <<"f">>
g == <<"g">>

Absent == [has |-> FALSE, docs |-> <<>>]
Present(docs) == [has |-> TRUE, docs |-> docs]
EmptyData == [name \in CollNames |-> Absent]
\* The documents of a parsed file are distinct objects
Fresh(contents, base) == [i \in 1..Len(contents) |-> [contents[i] EXCEPT !.r = base + i]]
SeqsUpTo(S, n) == UNION {[1..m -> S] : m \in 0..n}

\* Variant of the accessor that always assigns the empty collection
Attach_emptied(d, name) == [d EXCEPT ![name] = Present(<<>>)]
\* `!this.data[name]` then `this.data[name] = []`: the accessor both facades use
Attach(d, name) == IF d[name].has THEN d ELSE [d EXCEPT ![name] = Present(<<>>)]

NoOp ==
  [op |-> "none", name |-> "", err |-> FALSE, count |-> 0, saves |-> 0, docs |-> <<>>,
   val |-> Undefined, arg |-> Undefined, upd |-> Undefined, pre |-> EmptyData,
   preChain |-> NoChain]
\* The record of a call on collection `name`, before its results are filled in
Call(op, name) == [NoOp EXCEPT !.op = op, !.name = name, !.pre = data, !.preChain = chain]
\* The arguments a run of the matcher, or of the two query forms, works on
NoInput ==
  [doc |-> Undefined, q1 |-> Undefined, q2 |-> Undefined,
   field |-> <<>>, op |-> <<>>, v |-> Undefined, debounce |-> 0]

\* The state after construction
InitDb ==
  /\ facade \in {"JSONKit", "magic"}
  /\ data = EmptyData
  /\ loaded = FALSE
  /\ autoSave \in BOOLEAN
  /\ chain = NoChain
  /\ last = NoOp
  /\ Quiet
  /\ inp = NoInput

\* load(): the parsed file becomes the mapping; with no file the empty
\* mapping is saved
Load(files) ==
  /\ ~loaded
  /\ \E file \in files \cup {EmptyData} :
       /\ data' = file
       /\ last' = [Call("load", "") EXCEPT !.saves = IF file = EmptyData THEN 1 ELSE 0]
  /\ loaded' = TRUE
  /\ UNCHANGED <<facade, autoSave, chain, inp, disk, saveTimeout, reported, timers, promises, written, held>>

\* manager.chain(name), on a manager that has loaded: the chain holds the
\* mapping load() made
MagicChain(names) ==
  /\ facade = "magic" /\ loaded
  /\ \E name \in names : chain' = Chain_new(name, TRUE)
  /\ last' = NoOp
  /\ UNCHANGED <<facade, data, loaded, autoSave, inp, disk, saveTimeout, reported, timers, promises, written, held>>

\* A builder call leaves the chain as c and returns it
Builder(c) ==
  /\ chain' = c
  /\ last' = NoOp
  /\ UNCHANGED <<facade, data, loaded, autoSave, inp, disk, saveTimeout, reported, timers, promises, written, held>>

ChainWhere(fields) ==
  /\ chain.made
  /\ \E field \in fields : Builder(Chain_where(chain, field))

\* eq, ne, gt, ...: each is addCondition with its operator
ChainOp(ops, vals) ==
  /\ chain.made
  /\ \E operator \in ops, value \in vals :
       IF Chain_addConditionThrows(chain)
       THEN /\ last' = [Call("addCondition", chain.collectionName) EXCEPT !.err = TRUE]
            /\ UNCHANGED chain
       ELSE /\ chain' = Chain_addCondition(chain, operator, value)
            /\ last' = NoOp
  /\ UNCHANGED <<facade, data, loaded, autoSave, inp, disk, saveTimeout, reported, timers, promises, written, held>>

ChainSort(fields, directions) ==
  /\ chain.made
  /\ \E field \in fields, direction \in directions :
       Builder(Chain_sort(chain, field, direction))
ChainLimit(counts) ==
  /\ chain.made
  /\ \E count \in counts : Builder(Chain_limit(chain, count))
ChainSkip(counts) ==
  /\ chain.made
  /\ \E count \in counts : Builder(Chain_skip(chain, count))

\* What get() can return for chain c now: the collection getter attaches a
\* missing collection first
Results(c) == Chain_get(c, Attach(data, c.collectionName)[c.collectionName].docs)

\* A terminal that reads leaves the chain as c and is recorded as rec
Reading(c, rec) ==
  /\ data' = Attach(data, chain.collectionName)
  /\ chain' = c
  /\ last' = rec
  /\ UNCHANGED <<facade, loaded, autoSave, inp, disk, saveTimeout, reported, timers, promises, written, held>>

ChainGet ==
  /\ chain.made
  /\ \E results \in Results(chain) :
       Reading(chain, [Call("get", chain.collectionName) EXCEPT !.docs = results])
\* first() is this.limit(1).get()
ChainFirst ==
  /\ chain.made
  /\ \E results \in Results(Chain_limit(chain, 1)) :
       Reading(Chain_limit(chain, 1),
               [Call("first", chain.collectionName) EXCEPT
                  !.docs = results, !.val = FirstOrNull(results)])
ChainLast ==
  /\ chain.made
  /\ \E results \in Results(chain) :
       Reading(chain, [Call("last", chain.collectionName) EXCEPT
                         !.docs = results, !.val = LastOrNull(results)])
ChainCount ==
  /\ chain.made
  /\ \E results \in Results(chain) :
       Reading(chain, [Call("count", chain.collectionName) EXCEPT
                         !.docs = results, !.count = Len(results)])
ChainExists ==
  /\ chain.made
  /\ \E results \in Results(chain) :
       Reading(chain, [Call("exists", chain.collectionName) EXCEPT
                         !.docs = results, !.val = Bool(Len(results) > 0)])
ChainPluck(fields) ==
  /\ chain.made
  /\ \E field \in fields, results \in Results(chain) :
       Reading(chain, [Call("pluck", chain.collectionName) EXCEPT
                         !.docs = results, !.val = Arr(Chain_pluck(results, field))])
ChainSum(fields) ==
  /\ chain.made
  /\ \E field \in fields, results \in Results(chain) :
       Reading(chain, [Call("sum", chain.collectionName) EXCEPT
                         !.docs = results, !.count = Chain_sum(results, field)])

\* A terminal that writes leaves the chain as c and the live collection as
\* out.docs, and calls saveFn when there is one and the code asks for it
Writing(c, rec, out) ==
  /\ data' = [Attach(data, chain.collectionName) EXCEPT
                ![chain.collectionName] = Present(out.docs)]
  /\ chain' = c
  /\ LET saved == chain.saveFn /\ out.saves > 0
     IN /\ last' = [rec EXCEPT !.count = out.count,
                               !.saves = IF saved THEN out.saves ELSE 0,
                               !.err = saved /\ disk /= "ok"]
        /\ saveTimeout' = IF saved THEN "none" ELSE saveTimeout
  /\ UNCHANGED <<facade, loaded, autoSave, inp, disk, reported, timers, promises, written, held>>
\* The live collection of the chain
Live == Attach(data, chain.collectionName)[chain.collectionName].docs

ChainUpdate(patches) ==
  /\ chain.made
  /\ \E updates \in patches, results \in Results(chain) :
       Writing(chain,
               [Call("update", chain.collectionName) EXCEPT
                  !.docs = results, !.upd = updates],
               Chain_update(Live, results, updates))
ChainUpdateOne(patches) ==
  /\ chain.made
  /\ \E updates \in patches, results \in Results(Chain_limit(chain, 1)) :
       Writing(Chain_limit(chain, 1),
               [Call("updateOne", chain.collectionName) EXCEPT
                  !.docs = results, !.upd = updates],
               Chain_updateOne(Live, FirstOrNull(results), updates))
ChainDelete ==
  /\ chain.made
  /\ \E results \in Results(chain) :
       Writing(chain, [Call("delete", chain.collectionName) EXCEPT !.docs = results],
               Chain_delete(Live, results))
ChainDeleteOne ==
  /\ chain.made
  /\ \E results \in Results(Chain_limit(chain, 1)) :
       Writing(Chain_limit(chain, 1),
               [Call("deleteOne", chain.collectionName) EXCEPT !.docs = results],
               Chain_deleteOne(Live, FirstOrNull(results)))

\* JSONKit.collection throws before load()
\* Variant of the guard of collection() that throws in every state
JSONKit_collectionThrows_always == TRUE
JSONKit_collectionThrows == ~loaded
NotLoaded(op, name) ==
  /\ last' = [Call(op, name) EXCEPT !.err = TRUE]
  /\ UNCHANGED <<facade, data, loaded, autoSave, chain, inp, disk, saveTimeout, reported, timers, promises, written, held>>

\* A JSONKit call that reads collection `name`
DbReading(rec) ==
  /\ data' = Attach(data, rec.name)
  /\ last' = rec
  /\ UNCHANGED <<facade, loaded, autoSave, chain, inp, disk, saveTimeout, reported, timers, promises, written, held>>
\* The collection JSONKit.collection(name) returns
Coll(name) == Attach(data, name)[name].docs

\* JSONKit.collection(name)
DbCollection(names) ==
  /\ facade = "JSONKit"
  /\ \E name \in names :
       IF JSONKit_collectionThrows THEN NotLoaded("db.collection", name)
       ELSE DbReading([Call("db.collection", name) EXCEPT !.docs = Coll(name)])
DbFind(names, queries) ==
  /\ facade = "JSONKit"
  /\ \E name \in names, query \in queries :
       IF JSONKit_collectionThrows THEN NotLoaded("db.find", name)
       ELSE DbReading([Call("db.find", name) EXCEPT
                         !.arg = query, !.docs = JSONKit_find(Coll(name), query)])
DbFindOne(names, queries) ==
  /\ facade = "JSONKit"
  /\ \E name \in names, query \in queries :
       IF JSONKit_collectionThrows THEN NotLoaded("db.findOne", name)
       ELSE DbReading([Call("db.findOne", name) EXCEPT
                         !.arg = query, !.docs = JSONKit_find(Coll(name), query),
                         !.val = FirstOrNull(JSONKit_find(Coll(name), query))])
DbCount(names, queries) ==
  /\ facade = "JSONKit"
  /\ \E name \in names, query \in queries :
       IF JSONKit_collectionThrows THEN NotLoaded("db.count", name)
       ELSE DbReading([Call("db.count", name) EXCEPT
                         !.arg = query, !.docs = JSONKit_find(Coll(name), query),
                         !.count = Len(JSONKit_find(Coll(name), query))])

\* A JSONKit call that writes collection rec.name
DbWriting(rec, out) ==
  /\ data' = [Attach(data, rec.name) EXCEPT ![rec.name] = Present(out.docs)]
  /\ last' = [rec EXCEPT !.count = out.count, !.saves = out.saves,
                         !.err = out.saves > 0 /\ disk /= "ok"]
  /\ Kept(rec)
  /\ UNCHANGED <<facade, loaded, autoSave, chain, inp, disk, saveTimeout, reported, timers, promises, written>>

DbUpdate(names, queries, patches) ==
  /\ facade = "JSONKit"
  /\ \E name \in names, query \in queries, updates \in patches :
       IF JSONKit_collectionThrows THEN NotLoaded("db.update", name)
       ELSE DbWriting([Call("db.update", name) EXCEPT !.arg = query, !.upd = updates],
                      JSONKit_update(Coll(name), query, updates, autoSave))
DbUpdateOne(names, queries, patches) ==
  /\ facade = "JSONKit"
  /\ \E name \in names, query \in queries, updates \in patches :
       IF JSONKit_collectionThrows THEN NotLoaded("db.updateOne", name)
       ELSE DbWriting([Call("db.updateOne", name) EXCEPT !.arg = query, !.upd = updates],
                      JSONKit_updateOne(Coll(name), query, updates, autoSave))
DbDelete(names, queries) ==
  /\ facade = "JSONKit"
  /\ \E name \in names, query \in queries :
       IF JSONKit_collectionThrows THEN NotLoaded("db.delete", name)
       ELSE DbWriting([Call("db.delete", name) EXCEPT !.arg = query],
                      JSONKit_delete(Coll(name), query, autoSave))
DbDeleteOne(names, queries) ==
  /\ facade = "JSONKit"
  /\ \E name \in names, query \in queries :
       IF JSONKit_collectionThrows THEN NotLoaded("db.deleteOne", name)
       ELSE DbWriting([Call("db.deleteOne", name) EXCEPT !.arg = query],
                      JSONKit_deleteOne(Coll(name), query, autoSave))

\* What a call returns whose save, when it makes one, is awaited: the error
\* `Failed to save database: ...` when the write is rejected
Saved(rec, saving) ==
  [rec EXCEPT !.saves = IF saving THEN 1 ELSE 0, !.err = saving /\ disk /= "ok"]
\* A call of JSONKit or of the manager that leaves the mapping as d and
\* awaits save() when `saving`; the manager's save() clears the pending timer
Mutating(d, rec, saving) ==
  /\ data' = d
  /\ last' = Saved(rec, saving)
  /\ saveTimeout' = IF saving /\ facade = "magic" THEN "none" ELSE saveTimeout
  /\ Kept(rec)
  /\ UNCHANGED <<facade, loaded, autoSave, chain, inp, disk, reported, timers, promises, written>>
\* save() of JSONKit and of the manager
Save ==
  /\ facade \in {"JSONKit", "magic"}
  /\ Mutating(data, Call("save", ""), TRUE)
\* clear(name) and drop(name) of JSONKit and of the manager
ClearCollection(names) ==
  /\ facade \in {"JSONKit", "magic"}
  /\ \E name \in names :
       Mutating([data EXCEPT ![name] = Present(<<>>)], Call("clear", name), autoSave)
DropCollection(names) ==
  /\ facade \in {"JSONKit", "magic"}
  /\ \E name \in names :
       Mutating([data EXCEPT ![name] = Absent], Call("drop", name), autoSave)
\* JSONKit.insert(name, document) of one document, a new object, into a
\* collection of fewer than `most` documents
DbInsert(names, documents, most) ==
  /\ facade = "JSONKit"
  /\ \E name \in names, document \in documents :
       IF JSONKit_collectionThrows THEN NotLoaded("db.insert", name)
       ELSE /\ Len(Coll(name)) < most
            /\ Mutating([data EXCEPT ![name] =
                           Present(Append(Coll(name), [document EXCEPT !.r = most + Len(Coll(name)) + 1]))],
                        [Call("db.insert", name) EXCEPT !.arg = document], autoSave)

\* The set and deleteProperty traps of the proxy load() returned:
\* proxy[name] = value and delete proxy[name].  With autoSave the trap calls
\* save(), which replaces the pending timer, and gives the promise's
\* rejection to console.error; the trap returns before the timer fires.
Trapped(d, rec) ==
  /\ data' = d
  /\ last' = [rec EXCEPT !.saves = IF autoSave THEN 1 ELSE 0]
  /\ saveTimeout' = IF autoSave THEN "console.error" ELSE saveTimeout
  /\ UNCHANGED <<facade, loaded, autoSave, chain, inp, disk, reported, timers, promises, written, held>>
ProxySet(names, values) ==
  /\ facade = "magic" /\ loaded
  /\ \E name \in names, value \in values :
       Trapped([data EXCEPT ![name] = Present(value)], Call("set", name))
ProxyDelete(names) ==
  /\ facade = "magic" /\ loaded
  /\ \E name \in names :
       Trapped([data EXCEPT ![name] = Absent], Call("deleteProperty", name))

\* Harmony.save(): with debounce > 0 it sets the timer to run saveNow and
\* returns; nothing is given the promise saveNow returns.  With debounce 0
\* it awaits saveNow.
HarmonySave ==
  /\ facade = "Harmony"
  /\ IF inp.debounce > 0
     THEN /\ last' = [Call("save", "") EXCEPT !.saves = 1]
          /\ saveTimeout' = "nothing"
     ELSE /\ last' = Saved(Call("save", ""), TRUE)
          /\ saveTimeout' = "none"
  /\ UNCHANGED <<facade, data, loaded, autoSave, chain, inp, disk, reported, timers, promises, written, held>>

\* The pending timer fires and the write is made: its failure goes to
\* console.error, or is a promise rejection nothing handles
TimerFires ==
  /\ saveTimeout /= "none"
  /\ saveTimeout' = "none"
  /\ reported' = IF disk = "ok" THEN reported
                 ELSE IF saveTimeout = "console.error" THEN "console.error"
                 ELSE "unhandledRejection"
  /\ UNCHANGED <<facade, data, loaded, autoSave, chain, last, inp, disk, timers, promises, written, held>>

\* Query.match on the collection collection(name) returns
QueryMatch(names, queries) ==
  /\ facade = "JSONKit" /\ loaded
  /\ \E name \in names, query \in queries :
       DbReading([Call("Query.match", name) EXCEPT
                    !.arg = query, !.docs = Query_match(Coll(name), query)])

\* Query.sort on the collection collection(name) returns
QuerySort(names, sorts) ==
  /\ facade = "JSONKit" /\ loaded
  /\ \E name \in names, sortBy \in sorts :
       \E results \in Query_sort(Coll(name), sortBy) :
         DbReading([Call("Query.sort", name) EXCEPT !.arg = sortBy, !.docs = results])

\* Query.matchOne on the document drawn
MatchOne(queries) ==
  /\ \E query \in queries :
       last' = [Call("matchOne", "") EXCEPT
                  !.arg = query, !.val = Bool(Query_matchOne(inp.doc, query))]
  /\ UNCHANGED <<facade, data, loaded, autoSave, chain, inp, disk, saveTimeout, reported, timers, promises, written, held>>

(***************************************************************************)
(* Spec: a database object, a chain on it, and every operation             *)
(***************************************************************************)
\* Longest collection of a database file
MaxDocs == 2
Doc(value) == Obj(<<P(f, value)>>)
NumberDocs == {Doc(Num(1)), Doc(Num(2)), Doc(Num(3))}
Posts == {Absent, Present(Fresh(<<Doc(Num(1))>>, MaxDocs + 1))}
Files ==
  {[users |-> Present(Fresh(docs, 0)), posts |-> posts] :
     docs \in SeqsUpTo(NumberDocs, MaxDocs), posts \in Posts}
Patches == {Obj(<<P(g, Num(1))>>)}
DbQueries ==
  {Obj(<<>>), Obj(<<P(f, Num(1))>>), Obj(<<P(f, Obj(<<P(k_gt, Num(1))>>))>>)}

Init == InitDb
Next ==
  \/ Load(Files)
  \/ MagicChain({"users"})
  \/ ChainWhere({f})
  \/ ChainOp({k_gt}, {Num(1)})
  \/ ChainGet
  \/ ChainFirst
  \/ ChainLast
  \/ ChainCount
  \/ ChainExists
  \/ ChainPluck({f})
  \/ ChainSum({f})
  \/ ChainUpdate(Patches)
  \/ ChainUpdateOne(Patches)
  \/ ChainDelete
  \/ ChainDeleteOne
  \/ DbFind({"users"}, DbQueries)
  \/ DbFindOne({"users"}, DbQueries)
  \/ DbCount({"users"}, DbQueries)
  \/ DbUpdate({"users"}, DbQueries, Patches)
  \/ DbUpdateOne({"users"}, DbQueries, Patches)
  \/ DbDelete({"users"}, DbQueries)
  \/ DbDeleteOne({"users"}, DbQueries)
Spec == Init /\ [][Next]_vars

(***************************************************************************)
(* SpecChain: a loaded manager and one chain: every builder call and       *)
(* every terminal that reads                                               *)
(***************************************************************************)
\* Longest collection the chain reads
MaxRows == 3
\* Largest count given to skip()
MaxSkip == 1
\* Largest count given to limit()
MaxLimit == 1
Rows == NumberDocs
InitChain ==
  /\ facade = "magic"
  /\ loaded = TRUE
  /\ autoSave = TRUE
  /\ \E docs \in SeqsUpTo(Rows, MaxRows) :
       data = [EmptyData EXCEPT !["users"] = Present(Fresh(docs, 0))]
  /\ chain = Chain_new("users", TRUE)
  /\ last = NoOp
  /\ Quiet
  /\ inp = NoInput
NextChain ==
  \/ ChainWhere({f})
  \/ ChainOp({k_gt}, {Num(1)})
  \/ ChainSort({f}, {"asc", "desc"})
  \/ ChainSkip(0..MaxSkip)
  \/ ChainLimit(0..MaxLimit)
  \/ ChainGet
  \/ ChainFirst
  \/ ChainLast
  \/ ChainCount
  \/ ChainExists
  \/ ChainPluck({f})
  \/ ChainSum({f})
SpecChain == InitChain /\ [][NextChain]_vars

(***************************************************************************)
(* SpecEquiv: one condition, field op operand, given to the plain query    *)
(* of a loaded JSONKit and to a chain of a loaded manager on the same file *)
(***************************************************************************)
\* Longest collection the two forms are compared on
MaxEquivDocs == 2
a == <<"a">>
ab == <<"a", "b">>
EquivDocs ==
  {Doc(Num(1)), Doc(Num(2)), Doc(Str(ab)), Doc(Null), Doc(Obj(<<P(a, Num(1))>>)),
   Obj(<<>>)}
EquivOperands ==
  {Null, Bool(TRUE), Num(1), Str(a), Str(<<"b">>), Arr(<<Num(1), Str(ab)>>),
   Obj(<<P(a, Num(1))>>), Obj(<<>>)}
EquivOperators ==
  {k_eq, k_ne, k_gt, k_gte, k_lt, k_lte, k_in, k_nin, k_contains, k_startsWith,
   k_endsWith}
\* A field with every operator and operand; the empty field name and a name
\* that begins with $ with one each
EquivInputs ==
  {[NoInput EXCEPT !.field = f, !.op = op, !.v = v] :
     op \in EquivOperators, v \in EquivOperands}
  \cup {[NoInput EXCEPT !.field = field, !.op = k_gt, !.v = Num(1)] :
          field \in {<<>>, k_xyz}}
\* {field: v} for eq, the shorthand; {field: {$op: v}} for the others
PlainQuery(field, op, v) ==
  IF op = k_eq THEN Obj(<<P(field, v)>>) ELSE Obj(<<P(field, Obj(<<P(op, v)>>))>>)
InitEquiv ==
  /\ facade \in {"JSONKit", "magic"}
  /\ loaded = TRUE
  /\ autoSave = TRUE
  /\ \E docs \in SeqsUpTo(EquivDocs, MaxEquivDocs) :
       data = [EmptyData EXCEPT !["users"] = Present(Fresh(docs, 0))]
  /\ chain = NoChain
  /\ last = NoOp
  /\ Quiet
  /\ inp \in EquivInputs
NextEquiv ==
  \/ MagicChain({"users"})
  \/ ChainWhere({inp.field})
  \/ ChainOp({inp.op}, {inp.v})
  \/ ChainGet
  \/ DbFind({"users"}, {Obj(<<>>), PlainQuery(inp.field, inp.op, inp.v)})
  \/ QueryMatch({"users"}, {Obj(<<>>), PlainQuery(inp.field, inp.op, inp.v)})
SpecEquiv == InitEquiv /\ [][NextEquiv]_vars

(***************************************************************************)
(* SpecMatch: Query.matchOne on one document, with two queries and their   *)
(* combinations                                                            *)
(***************************************************************************)
MatchDocs ==
  {Obj(<<>>), Doc(Num(1)), Doc(Num(2)),
   Obj(<<P(f, Num(1)), P(g, Num(1))>>), Obj(<<P(f, Num(2)), P(g, Num(1))>>)}
MatchQueries ==
  {Obj(<<>>), Obj(<<P(f, Num(1))>>), Obj(<<P(f, Obj(<<P(k_gt, Num(1))>>))>>),
   Obj(<<P(g, Num(1))>>), Obj(<<P(k_not, Obj(<<P(f, Num(1))>>))>>),
   Obj(<<P(k_or, Arr(<<Obj(<<P(f, Num(2))>>), Obj(<<P(g, Num(1))>>)>>))>>)}
AndOf(queries) == Obj(<<P(k_and, Arr(queries))>>)
OrOf(queries) == Obj(<<P(k_or, Arr(queries))>>)
NotOf(query) == Obj(<<P(k_not, query)>>)
InitMatch ==
  /\ facade = "JSONKit"
  /\ data = EmptyData
  /\ loaded = FALSE
  /\ autoSave = TRUE
  /\ chain = NoChain
  /\ last = NoOp
  /\ Quiet
  /\ \E doc \in MatchDocs, q1 \in MatchQueries, q2 \in MatchQueries :
       inp = [NoInput EXCEPT !.doc = doc, !.q1 = q1, !.q2 = q2]
MatchEach == MatchOne({inp.q1, inp.q2, Obj(<<>>)})
MatchAnd == MatchOne({AndOf(<<inp.q1, inp.q2>>)})
MatchOr == MatchOne({OrOf(<<inp.q1, inp.q2>>)})
\* $or with a field condition before it, and with one after it
MatchOrBeside ==
  MatchOne({Put(Obj(<<P(f, Num(1))>>), k_or, Arr(<<inp.q1, inp.q2>>)),
            Put(OrOf(<<inp.q1, inp.q2>>), g, Num(1))})
MatchNot == MatchOne({NotOf(inp.q1)})
NextMatch == MatchEach \/ MatchAnd \/ MatchOr \/ MatchOrBeside \/ MatchNot
SpecMatch == InitMatch /\ [][NextMatch]_vars

(***************************************************************************)
(* Properties of the two query forms (under SpecEquiv)                     *)
(***************************************************************************)
\* The documents of the collection both forms read
Users == data["users"].docs
\* The plain query of the condition drawn, and the fresh chain
\* chain("users").where(field) that takes the condition
DrawnQuery == PlainQuery(inp.field, inp.op, inp.v)
DrawnChain == Chain_where(Chain_new("users", TRUE), inp.field)
\* find returned for the drawn condition; get returned from a chain that
\* holds exactly that condition; the operator call after where(field) threw
FindActed == last.op = "db.find" /\ last.arg = DrawnQuery
GetActed == last.op = "get" /\ chain.query = DrawnQuery
OperatorThrew == last.op = "addCondition" /\ last.err /\ chain.currentField.t = "string"
\* What find returned is what the chain returns, and the reverse
FormsAgree ==
  /\ ~OperatorThrew
  /\ FindActed =>
       /\ ~Chain_addConditionThrows(DrawnChain)
       /\ Chain_get(Chain_addCondition(DrawnChain, inp.op, inp.v), Users) = {last.docs}
  /\ GetActed => last.docs = JSONKit_find(Users, DrawnQuery)
ComparisonOperators == EquivOperators \ {k_eq}
\* A field name the chain accepts and the plain query reads as a field
ProperField(field) == field /= <<>> /\ ~StartsWithDollar(field)

\* C1, as stated: for every collection, field, operator of ne, gt, gte, lt,
\* lte, in, notIn, contains, startsWith, endsWith and operand,
\* find(C, {f: {$op: v}}) and chain(C).where(f).op(v).get() return the same
\* documents in the same order.
C1_EveryField == inp.op \in ComparisonOperators => FormsAgree
\* C1, amended: the same for every field name that is not empty and does not
\* begin with $.
C1_FindChainAgree ==
  inp.op \in ComparisonOperators /\ ProperField(inp.field) => FormsAgree
\* get has returned some documents of the collection, not all, for a
\* comparison on a proper field
C1_Witness ==
  /\ GetActed /\ inp.op \in ComparisonOperators /\ ProperField(inp.field)
  /\ 0 < Len(last.docs) /\ Len(last.docs) < Len(Users)

\* C2: for every collection, field and value (null, boolean, number, string,
\* sequence, nested mapping), find(C, {f: v}) and chain(C).where(f).eq(v).get()
\* return the same documents in the same order.
C2_EqShorthandAgrees == inp.op = k_eq /\ ProperField(inp.field) => FormsAgree

\* C8: a query with no entries matches every document: Query.matchOne(D, {})
\* is true of every document, and Query.match(C, {}), find(C, {}) and a chain
\* with no conditions each return all documents of C in collection order.
C8_EmptyQueryMatchesAll ==
  /\ \A i \in 1..Len(Users) : Query_matchOne(Users[i], Obj(<<>>))
  /\ last.op \in {"Query.match", "db.find"} /\ last.arg = Obj(<<>>) => last.docs = Users
  /\ last.op = "get" /\ chain.query = Obj(<<>>) => last.docs = Users
\* Query.match has run the empty query over a collection of two documents
C8_Witness ==
  /\ last.op = "Query.match" /\ last.arg = Obj(<<>>)
  /\ Len(Users) >= 2 /\ last.docs = Users

(***************************************************************************)
(* Properties of the chain's terminals that read (under SpecChain)         *)
(***************************************************************************)
Take(n, seq) == [i \in 1..(IF n < Len(seq) THEN n ELSE Len(seq)) |-> seq[i]]
Drop(n, seq) == [i \in 1..(IF n < Len(seq) THEN Len(seq) - n ELSE 0) |-> seq[i + n]]
\* res is seq in the order of cfg, documents that compare equal keeping the
\* order they have in seq
IsStableSort(res, seq, cfg) ==
  /\ Len(res) = Len(seq)
  /\ \E p \in [1..Len(seq) -> 1..Len(seq)] :
       /\ \A i, j \in 1..Len(seq) : i /= j => p[i] /= p[j]
       /\ \A i \in 1..Len(seq) : res[i] = seq[p[i]]
       /\ \A i, j \in 1..Len(seq) :
            i < j => \/ Chain_compare(res[i], res[j], cfg) < 0
                     \/ Chain_compare(res[i], res[j], cfg) = 0 /\ p[i] < p[j]
\* The documents of seq that satisfy every condition of chain c
Filtered(c, seq) == SelectSeq(seq, LAMBDA doc : Chain_matchDocument(c, doc))
\* res is take(limit, drop(skip, stableSort(filter(seq)))) for chain c, a
\* stage that is not set leaving the sequence as it is
IsPipeline(res, c, seq) ==
  \E sorted \in AllOrders(Filtered(c, seq)) :
    /\ IF c.sortConfig.set THEN IsStableSort(sorted, Filtered(c, seq), c.sortConfig)
       ELSE sorted = Filtered(c, seq)
    /\ res = (IF c.limitCount.isNull THEN Drop(c.skipCount, sorted)
              ELSE Take(c.limitCount.n, Drop(c.skipCount, sorted)))

\* C3: get() evaluates filter, then sort, then skip, then limit, in whatever
\* order where, sort, skip and limit were called: what it returns is
\* take(limit, drop(skip, stableSort(filter(C)))).
C3_FilterSortSkipLimit == last.op = "get" => IsPipeline(last.docs, chain, Users)
\* sort(f, 'asc'), skip(1), limit(1) on [{f:3}, {f:1}, {f:2}] returned [{f:2}]
C3_Witness ==
  /\ last.op = "get"
  /\ [i \in 1..Len(Users) |-> Get(Users[i], f)] = <<Num(3), Num(1), Num(2)>>
  /\ chain.sortConfig = [set |-> TRUE, field |-> f, direction |-> "asc"]
  /\ chain.skipCount = 1 /\ chain.limitCount = [isNull |-> FALSE, n |-> 1]
  /\ last.docs = <<Users[3]>>

ChainReaders == {"get", "first", "last", "count", "exists", "pluck", "sum"}
\* C6: get, first, last, count, exists, pluck and the aggregates leave the
\* chain's query, sort, skip count, limit count and current field as they
\* were, so that get() returns after them what it returned before them.
C6_ReadersKeepChain ==
  last.op \in ChainReaders =>
    /\ chain = last.preChain
    /\ Chain_get(chain, Users) = Chain_get(last.preChain, Users)

(***************************************************************************)
(* Properties of the calls on a database (under Spec)                      *)
(***************************************************************************)
\* The collection of the last call, before the call and now
Before == last.pre[last.name].docs
After == data[last.name].docs
\* The documents the last call matched: what get() gave a terminal of the
\* chain, what Query.match gives for the query of a JSONKit call
MatchedDocs ==
  IF last.op \in {"db.update", "db.updateOne", "db.delete", "db.deleteOne"}
  THEN Query_match(Before, last.arg)
  ELSE last.docs
Matched(doc) == \E i \in 1..Len(MatchedDocs) : MatchedDocs[i].r = doc.r
NumberMatched == Cardinality({i \in 1..Len(Before) : Matched(Before[i])})

\* C4: Chain.update, Chain.delete, JSONKit.update and JSONKit.delete return
\* the number of documents they assigned to or removed, and every document
\* outside the matched set is unchanged and keeps its place among the
\* documents that remain.
C4_CountAndFrame ==
  /\ last.op \in {"update", "db.update"} =>
       /\ last.count = NumberMatched
       /\ Len(After) = Len(Before)
       /\ \A i \in 1..Len(Before) :
            After[i] = IF Matched(Before[i]) THEN ObjectAssign(Before[i], last.upd)
                       ELSE Before[i]
  /\ last.op \in {"delete", "db.delete"} =>
       /\ last.count = NumberMatched
       /\ After = SelectSeq(Before, LAMBDA doc : ~Matched(doc))
\* JSONKit.update has assigned to one document of two
C4_Witness ==
  /\ last.op = "db.update" /\ last.count = 1 /\ Len(Before) = 2
  /\ \E i \in 1..2 : After[i] = Before[i]
  /\ \E i \in 1..2 : After[i] /= Before[i]

Writers ==
  {"update", "updateOne", "delete", "deleteOne",
   "db.update", "db.updateOne", "db.delete", "db.deleteOne"}
\* C5: an update or delete (update, updateOne, delete, deleteOne of Chain and
\* of JSONKit) that matches no document returns 0, leaves the collection as
\* it was and does not call save; no call that returns 0 calls save.
C5_NoMatchNoSave ==
  last.op \in Writers =>
    /\ NumberMatched = 0 => last.count = 0 /\ last.saves = 0 /\ After = Before
    /\ last.count = 0 => last.saves = 0
\* Chain.delete has matched nothing in a collection that has documents
C5_Witness ==
  /\ last.op = "delete" /\ last.docs = <<>> /\ Before /= <<>>
  /\ last.count = 0 /\ last.saves = 0

\* C7: builder calls, the terminals that read, and Query.match, find,
\* findOne and count leave every document and the contents and order of every
\* collection as they were (a collection the accessor creates is empty) and
\* do not call save: in every step other than load and the writers.
C7_MatchingNeverMutates ==
  [][last'.op \notin Writers \cup {"load"} =>
       /\ \A name \in CollNames : data'[name].docs = data[name].docs
       /\ last'.saves = 0]_vars
\* find has returned documents of a collection that is as it was
C7_Witness ==
  /\ last.op = "db.find" /\ last.docs /= <<>>
  /\ After = Before /\ last.saves = 0

(***************************************************************************)
(* Properties of the combinators (under SpecMatch)                         *)
(***************************************************************************)
Matches(query) == Query_matchOne(inp.doc, query)
\* The query without its entry for key
Without(query, key) == [query EXCEPT !.e = SelectSeq(query.e, LAMBDA p : p.k /= key)]

\* C9: Query.matchOne(D, {$and: [Q1, Q2]}) is Query.matchOne(D, Q1) and
\* Query.matchOne(D, Q2).
C9_AndIsConjunction ==
  last.op = "matchOne" /\ last.arg = AndOf(<<inp.q1, inp.q2>>) =>
    last.val = Bool(Matches(inp.q1) /\ Matches(inp.q2))
\* $and has failed on a document that the first query matches
C9_Witness ==
  /\ last.op = "matchOne" /\ last.arg = AndOf(<<inp.q1, inp.q2>>)
  /\ Matches(inp.q1) /\ ~Matches(inp.q2) /\ last.val = Bool(FALSE)

\* C10: Query.matchOne(D, {$or: [Q1, Q2]}) is Query.matchOne(D, Q1) or
\* Query.matchOne(D, Q2); with field conditions beside the $or key it is
\* that disjunction and every field condition.
C10_OrIsDisjunction ==
  last.op = "matchOne" /\ Get(last.arg, k_or) = Arr(<<inp.q1, inp.q2>>) =>
    last.val = Bool(/\ Matches(inp.q1) \/ Matches(inp.q2)
                    /\ Matches(Without(last.arg, k_or)))
\* $or beside a field condition has matched through its second query only
C10_Witness ==
  /\ last.op = "matchOne" /\ Get(last.arg, k_or) = Arr(<<inp.q1, inp.q2>>)
  /\ Len(last.arg.e) = 2
  /\ ~Matches(inp.q1) /\ Matches(inp.q2) /\ last.val = Bool(TRUE)

\* C11: Query.matchOne(D, {$not: Q}) is the negation of Query.matchOne(D, Q).
C11_NotIsNegation ==
  last.op = "matchOne" /\ last.arg = NotOf(inp.q1) =>
    last.val = Bool(~Matches(inp.q1))
\* $not has matched a document that its query, one with entries, rejects
C11_Witness ==
  /\ last.op = "matchOne" /\ last.arg = NotOf(inp.q1)
  /\ inp.q1.e /= <<>> /\ ~Matches(inp.q1) /\ last.val = Bool(TRUE)

(***************************************************************************)
(* SpecSort: sorting a collection of documents with and without the sort   *)
(* field, by a chain and by Query.sort                                     *)
(***************************************************************************)
\* Longest collection that is sorted
MaxSortDocs == 4
SortRows == {Doc(Num(1)), Doc(Num(2)), Obj(<<>>)}
SortBys == {Str(f), Obj(<<P(f, Str(<<"d", "e", "s", "c">>))>>)}
InitSort ==
  /\ facade \in {"JSONKit", "magic"}
  /\ loaded = TRUE
  /\ autoSave = TRUE
  /\ \E docs \in SeqsUpTo(SortRows, MaxSortDocs) :
       data = [EmptyData EXCEPT !["users"] = Present(Fresh(docs, 0))]
  /\ chain = NoChain
  /\ last = NoOp
  /\ Quiet
  /\ inp = NoInput
NextSort ==
  \/ MagicChain({"users"})
  \/ ChainSort({f}, {"asc", "desc"})
  \/ ChainGet
  \/ QuerySort({"users"}, SortBys)
SpecSort == InitSort /\ [][NextSort]_vars

\* The place of a document in a collection
PlaceIn(collection, doc) == CHOOSE i \in 1..Len(collection) : collection[i].r = doc.r
\* Documents of res with equal values of the field are in the order they
\* have in the collection
KeepsTies(res, collection, field) ==
  \A i, j \in 1..Len(res) :
    i < j /\ StrictEquals(Get(res[i], field), Get(res[j], field)) =>
      PlaceIn(collection, res[i]) < PlaceIn(collection, res[j])

\* C12: sorting is stable: when Chain.get() or Query.sort sorts by a field,
\* ascending or descending, two documents with equal values of the field are
\* in the result in the order they have in the collection.
C12_SortIsStable ==
  /\ last.op = "get" /\ chain.sortConfig.set =>
       KeepsTies(last.docs, Users, chain.sortConfig.field)
  /\ last.op = "Query.sort" => KeepsTies(last.docs, Users, f)

(***************************************************************************)
(* SpecOps: one field condition, a mapping of one or two operators, given  *)
(* to the plain query of a loaded JSONKit and, pair by pair, to a chain of *)
(* a loaded manager on the same file                                       *)
(***************************************************************************)
\* Longest collection the conditions are evaluated on
MaxOpsDocs == 2
OpsDocs ==
  {Doc(Num(1)), Doc(Num(2)), Doc(Num(3)), Doc(Str(ab)),
   Doc(Arr(<<Str(ab), Num(1)>>)), Doc(NotANumber), Obj(<<>>)}
OpsConditions ==
  {Obj(<<P(k_xyz, Num(1))>>), Obj(<<P(k_xyz, Null), P(k_zyx, Num(1))>>),
   Obj(<<P(k_in, Arr(<<Num(1), Str(ab)>>))>>), Obj(<<P(k_in, Arr(<<NotANumber>>))>>),
   Obj(<<P(k_in, Num(1))>>), Obj(<<P(k_in, Str(ab))>>),
   Obj(<<P(k_nin, Arr(<<Num(1), Str(ab)>>))>>), Obj(<<P(k_nin, Arr(<<NotANumber>>))>>),
   Obj(<<P(k_nin, Num(1))>>), Obj(<<P(k_nin, Str(ab))>>),
   Obj(<<P(k_gt, Num(1)), P(k_lt, Num(3))>>), Obj(<<P(k_lt, Num(3)), P(k_gt, Num(1))>>),
   Obj(<<P(k_gt, Num(1)), P(k_xyz, Num(1))>>),
   Obj(<<P(k_contains, Str(a))>>), Obj(<<P(k_contains, Str(ab))>>),
   Obj(<<P(k_contains, Num(1))>>)}
InitOps ==
  /\ facade \in {"JSONKit", "magic"}
  /\ loaded = TRUE
  /\ autoSave = TRUE
  /\ \E docs \in SeqsUpTo(OpsDocs, MaxOpsDocs) :
       data = [EmptyData EXCEPT !["users"] = Present(Fresh(docs, 0))]
  /\ chain = NoChain
  /\ last = NoOp
  /\ Quiet
  /\ \E condition \in OpsConditions : inp = [NoInput EXCEPT !.q1 = condition]
\* {f: condition}, and the condition's operand under a top-level key $xyz
OpsQuery == Obj(<<P(f, inp.q1)>>)
OpsTopLevel == Obj(<<P(k_xyz, inp.q1)>>)
\* One pair of the condition, attached to the chain's current field
OpsChainPair ==
  \E i \in 1..Len(inp.q1.e) : ChainOp({inp.q1.e[i].k}, {inp.q1.e[i].v})
NextOps ==
  \/ DbFind({"users"}, {OpsQuery, OpsTopLevel})
  \/ QueryMatch({"users"}, {OpsQuery, OpsTopLevel})
  \/ MagicChain({"users"})
  \/ ChainWhere({f})
  \/ OpsChainPair
  \/ ChainGet
SpecOps == InitOps /\ [][NextOps]_vars

\* The plain matcher returned for the query; get returned from a chain whose
\* query is {f: condition}
FoundBy(query) == last.op \in {"db.find", "Query.match"} /\ last.arg = query
GotBy(condition) == last.op = "get" /\ chain.query = Obj(<<P(f, condition)>>)
\* A mapping of operator keys none of which is known
OnlyUnknown(condition) ==
  /\ condition.t = "object" /\ condition.e /= <<>>
  /\ \A i \in 1..Len(condition.e) :
       StartsWithDollar(condition.e[i].k) /\ condition.e[i].k \notin KnownFieldOperators

\* C13: an unrecognised operator key never excludes a document: $xyz is true
\* of every field value and operand in handleFieldOperator and in
\* evaluateOperator, a top-level key $xyz is true of every document, and a
\* field condition made only of unrecognised operator keys selects every
\* document of the collection, in the plain query and in the chain.
C13_UnknownNeverExcludes ==
  /\ \A i \in 1..Len(Users), j \in 1..Len(inp.q1.e) :
       /\ Query_handleFieldOperator(Get(Users[i], f), k_xyz, inp.q1.e[j].v)
       /\ Chain_evaluateOperator(Get(Users[i], f), k_xyz, inp.q1.e[j].v)
       /\ Query_handleOperator(Users[i], k_xyz, inp.q1.e[j].v)
  /\ FoundBy(OpsTopLevel) => last.docs = Users
  /\ FoundBy(OpsQuery) /\ OnlyUnknown(inp.q1) => last.docs = Users
  /\ last.op = "get" /\ OnlyUnknown(Get(chain.query, f)) => last.docs = Users
C13_Witness ==
  /\ FoundBy(OpsQuery) /\ OnlyUnknown(inp.q1)
  /\ Len(Users) = 2 /\ Get(Users[1], f).t = "undefined"
  /\ last.docs = Users

\* The condition drawn is the one pair (operator, operand)
OneOperator(operator) == Len(inp.q1.e) = 1 /\ inp.q1.e[1].k = operator
Operand == inp.q1.e[1].v
\* Either form returned for the condition drawn
Evaluated == FoundBy(OpsQuery) \/ GotBy(inp.q1)
\* x === an element of the sequence v; x is the same value (SameValueZero)
\* as an element of the sequence v
StrictlyIn(v, x) ==
  v.t = "array" /\ \E i \in 1..Len(ArrayElems(v)) : StrictEquals(ArrayElems(v)[i], x)
SameValueIn(v, x) ==
  v.t = "array" /\ \E i \in 1..Len(ArrayElems(v)) : SameValueZero(ArrayElems(v)[i], x)

\* C14, as stated: $in selects exactly the documents whose field value
\* strictly equals (===) an element of a sequence operand, and none when the
\* operand is no sequence; $nin selects exactly the documents whose field
\* value strictly equals no element of a sequence operand, and none when the
\* operand is no sequence.
C14_StrictlyEqual ==
  /\ Evaluated /\ OneOperator(k_in) =>
       last.docs = SelectSeq(Users, LAMBDA d : StrictlyIn(Operand, Get(d, f)))
  /\ Evaluated /\ OneOperator(k_nin) =>
       last.docs = SelectSeq(Users, LAMBDA d :
                     Operand.t = "array" /\ ~StrictlyIn(Operand, Get(d, f)))
\* C14, amended: the same with the equality of Array.prototype.includes,
\* which is === but for NaN: a field value NaN equals an element NaN.  With
\* an operand that is no sequence $in and $nin both select no document.
C14_SameValueZero ==
  /\ Evaluated /\ OneOperator(k_in) =>
       last.docs = SelectSeq(Users, LAMBDA d : SameValueIn(Operand, Get(d, f)))
  /\ Evaluated /\ OneOperator(k_nin) =>
       last.docs = SelectSeq(Users, LAMBDA d :
                     Operand.t = "array" /\ ~SameValueIn(Operand, Get(d, f)))
  /\ Evaluated /\ (OneOperator(k_in) \/ OneOperator(k_nin)) /\ Operand.t /= "array" =>
       last.docs = <<>>
C14_Witness ==
  /\ Evaluated /\ OneOperator(k_nin) /\ Operand.t /= "array"
  /\ Len(Users) = 2 /\ last.docs = <<>>

(***************************************************************************)
(* SpecThrow: a fresh chain of a loaded manager; builder calls in any      *)
(* order, the operator method drawn among them, and the reading terminals  *)
(***************************************************************************)
\* Longest collection of the file
MaxThrowDocs == 2
ThrowRows == {Doc(Num(1)), Doc(Num(2))}
\* The operators of eq, ne, gt, gte, lt, lte, contains, startsWith, endsWith,
\* matches, in, notIn and exists
ChainOperators ==
  {k_eq, k_ne, k_gt, k_gte, k_lt, k_lte, k_contains, k_startsWith, k_endsWith,
   k_regex, k_in, k_nin, k_exists}
InitThrow ==
  /\ facade = "magic"
  /\ loaded = TRUE
  /\ autoSave = TRUE
  /\ \E docs \in SeqsUpTo(ThrowRows, MaxThrowDocs) :
       data = [EmptyData EXCEPT !["users"] = Present(Fresh(docs, 0))]
  /\ chain = Chain_new("users", TRUE)
  /\ last = NoOp
  /\ Quiet
  /\ \E operator \in ChainOperators : inp = [NoInput EXCEPT !.op = operator]
NextThrow ==
  \/ ChainWhere({f})
  \/ ChainOp({inp.op}, {Num(1)})
  \/ ChainSort({f}, {"desc"})
  \/ ChainSkip({1})
  \/ ChainLimit({1})
  \/ ChainGet
  \/ ChainCount
SpecThrow == InitThrow /\ [][NextThrow]_vars

\* C15: an operator method called on a chain on which no field was selected
\* throws, and leaves the chain (query, sort, skip, limit, current field) and
\* the data as they were; a terminal reads nothing but the chain and the
\* data (Results), so one called next returns what it returned before the
\* call.
C15_FailedCallLeavesChain ==
  [][chain.currentField.t = "null" /\ ChainOp(ChainOperators, {Num(1)}) =>
       /\ last'.op = "addCondition" /\ last'.err
       /\ chain' = chain /\ data' = data]_vars
\* The call threw on a chain that holds a sort, a skip and a limit, and
\* whose collection has documents
C15_Witness ==
  /\ last.op = "addCondition" /\ last.err
  /\ chain.currentField.t = "null" /\ chain.query = Obj(<<>>)
  /\ chain.sortConfig.set /\ chain.skipCount = 1 /\ ~chain.limitCount.isNull
  /\ Len(Users) = 2

(***************************************************************************)
(* SpecBuild: a fresh chain of a loaded manager; where on two fields, eq   *)
(* and one other operator with two operands, in any order, and get         *)
(***************************************************************************)
\* Longest collection of the file
MaxBuildDocs == 1
BuildOperators == {k_gt, k_ne, k_in}
\* The operands: none of them is a mapping of operators
BuildLiterals ==
  {Num(2), Num(0), Null, Str(a), Arr(<<Num(1)>>), Obj(<<P(a, Num(1))>>)}
InitBuild ==
  /\ facade = "magic"
  /\ loaded = TRUE
  /\ autoSave = TRUE
  /\ \E docs \in SeqsUpTo(NumberDocs, MaxBuildDocs) :
       data = [EmptyData EXCEPT !["users"] = Present(Fresh(docs, 0))]
  /\ chain = Chain_new("users", TRUE)
  /\ last = NoOp
  /\ Quiet
  /\ \E operator \in BuildOperators, value \in BuildLiterals :
       inp = [NoInput EXCEPT !.op = operator, !.v = value]
NextBuild ==
  \/ ChainWhere({f, g})
  \/ ChainOp({k_eq, inp.op}, {inp.v, Num(3)})
  \/ ChainGet
SpecBuild == InitBuild /\ [][NextBuild]_vars

\* The chain's query with the condition of its current field replaced
WithCondition(condition) == Put(chain.query, chain.currentField.s, condition)
\* The condition of the current field is a literal that eq put there
HoldsLiteral == Get(chain.query, chain.currentField.s) \in BuildLiterals \cup {Num(3)}

\* C16: on a chain with a field f selected, eq(v) makes v the whole condition
\* of f, whatever operators f had, and leaves the conditions of the other
\* fields as they were; and an operator other than eq called when the
\* condition of f is the literal of an earlier eq(v) makes the condition of
\* f the mapping of that one operator, without v.
C16_LastEqWins ==
  [][Truthy(chain.currentField) =>
       /\ \A v \in BuildLiterals \cup {Num(3)} :
            ChainOp({k_eq}, {v}) => chain'.query = WithCondition(v)
       /\ \A operator \in BuildOperators, x \in BuildLiterals \cup {Num(3)} :
            HoldsLiteral /\ ChainOp({operator}, {x}) =>
              chain'.query = WithCondition(Obj(<<P(operator, x)>>))]_vars

\* Every pair of the condition drawn is true of the field value x
EveryPair(x) ==
  \A j \in 1..Len(inp.q1.e) :
    Query_handleFieldOperator(x, inp.q1.e[j].k, inp.q1.e[j].v)

\* C17: the plain matcher, given {f: {$o1: a, $o2: b}}, selects exactly the
\* documents of whose field value every pair of the mapping is true, in
\* either order of the keys: {f: {$gt: 1, $lt: 3}} and {f: {$lt: 3, $gt: 1}}
\* both select the documents with 1 < f < 3.
C17_EveryPairHolds ==
  FoundBy(OpsQuery) /\ Len(inp.q1.e) > 1 =>
    last.docs = SelectSeq(Users, LAMBDA d : EveryPair(Get(d, f)))

\* Harmony's fetch().contains(field, searchTerm), of one item's field value:
\* a substring of a string, an element of an array, false of anything else
Harmony_contains(value, searchTerm) ==
  CASE value.t = "string" -> StringIncludes(value.s, ToStringJS(searchTerm))
    [] value.t = "array" -> ArrayIncludes(value, searchTerm)
    [] OTHER -> FALSE

\* C18: $contains, in the plain query and in the chain alike, selects a
\* document whose field value is a string exactly when the operand is a
\* substring of it, and a document whose field value is a sequence exactly
\* when the operand is an element of the sequence.
C18_ContainsIsDual ==
  Evaluated /\ OneOperator(k_contains) =>
    \A i \in 1..Len(Users) :
      Get(Users[i], f).t \in {"string", "array"} =>
        (SeqIncludes(last.docs, Users[i]) <=> Harmony_contains(Get(Users[i], f), Operand))

(***************************************************************************)
(* SpecAccess: a database object from its construction on: load, the       *)
(* collection accessor of JSONKit, and a chain that reads through its own  *)
(***************************************************************************)
InitAccess == InitDb
NextAccess ==
  \/ Load(Files)
  \/ DbCollection(CollNames)
  \/ MagicChain(CollNames)
  \/ ChainGet
SpecAccess == InitAccess /\ [][NextAccess]_vars

\* After the call recorded, collection `name` is there, as it was or empty
\* if it was not there, and the other collections are as they were
Attached(name) ==
  /\ data[name].has
  /\ data[name] = IF last.pre[name].has THEN last.pre[name] ELSE Present(<<>>)
  /\ \A other \in CollNames \ {name} : data[other] = last.pre[other]

MaxSaveDocs == 1
\* options.debounce, in milliseconds, when it is not 0
Debounce == 100
InitSave ==
  /\ facade \in {"JSONKit", "magic", "Harmony"}
  /\ loaded = TRUE
  /\ autoSave \in BOOLEAN
  /\ \E docs \in SeqsUpTo(NumberDocs, MaxSaveDocs) :
       data = [EmptyData EXCEPT !["users"] = Present(Fresh(docs, 0))]
  /\ chain = NoChain
  /\ last = NoOp
  /\ inp \in {[NoInput EXCEPT !.debounce = ms] : ms \in {0, Debounce}}
  /\ disk \in {"ok", "failing"}
  /\ saveTimeout = "none"
  /\ reported = "nothing"
  /\ Idle
NextSave ==
  \/ Save
  \/ ClearCollection({"users"})
  \/ DropCollection({"users"})
  \/ DbInsert({"users"}, {Doc(Num(1))}, MaxSaveDocs)
  \/ DbUpdate({"users"}, {Obj(<<>>)}, Patches)
  \/ DbDelete({"users"}, {Obj(<<>>)})
  \/ DbUpdateOne({"users"}, {Obj(<<>>)}, Patches)
  \/ DbDeleteOne({"users"}, {Obj(<<>>)})
  \/ MagicChain({"users"})
  \/ ChainUpdate(Patches)
  \/ ChainDelete
  \/ ChainUpdateOne(Patches)
  \/ ChainDeleteOne
  \/ ProxySet({"users"}, {<<>>})
  \/ ProxyDelete({"users"})
  \/ HarmonySave
  \/ TimerFires
SpecSave == InitSave /\ [][NextSave]_vars

\* C20: a write that fails is never swallowed: no failure goes anywhere but
\* to the caller, and a call whose save was made and whose write failed
\* returned the error to its caller; for save(), for the mutations that save
\* (insert, update, delete, clear, drop, the chain's update and delete, the
\* proxy's set and delete), with a debounce delay and without.
C20_WriteFailureSurfaces ==
  /\ reported = "nothing"
  /\ last.saves > 0 /\ disk /= "ok" /\ saveTimeout = "none" => last.err

\* The calls that change the data, and those that changed something: insert,
\* clear, drop and the traps always do, the others when they count a document
Mutations ==
  {"db.insert", "db.update", "db.updateOne", "db.delete", "db.deleteOne", "clear",
   "drop", "set", "deleteProperty", "update", "updateOne", "delete", "deleteOne"}
Mutated ==
  /\ last.op \in Mutations /\ ~last.err
  /\ last.op \in {"db.insert", "clear", "drop", "set", "deleteProperty"} \/ last.count > 0

\* C21: with autoSave false no mutation calls save (only save() does); with
\* autoSave true every mutation that changed something calls save once.
C21_AutoSaveGatesSaves ==
  /\ ~autoSave /\ last.op \in Mutations => last.saves = 0
  /\ autoSave /\ disk = "ok" /\ Mutated => last.saves = 1

\* ---- Conditions built from operators other than eq, on two fields
MaxAccumDocs == 2
AccumDocs ==
  {Obj(<<P(f, Num(1)), P(g, Num(1))>>), Obj(<<P(f, Num(2)), P(g, Num(3))>>),
   Obj(<<P(f, Num(3)), P(g, Num(2))>>)}
AccumOperators == {k_gt, k_lt}
AccumOperands == {Num(1), Num(3)}
InitAccum ==
  /\ facade = "magic"
  /\ loaded = TRUE
  /\ autoSave = TRUE
  /\ \E docs \in SeqsUpTo(AccumDocs, MaxAccumDocs) :
       data = [EmptyData EXCEPT !["users"] = Present(Fresh(docs, 0))]
  /\ chain = Chain_new("users", TRUE)
  /\ last = NoOp
  /\ Quiet
  /\ inp = NoInput
NextAccum ==
  \/ ChainWhere({f, g})
  \/ ChainOp(AccumOperators, AccumOperands)
  \/ ChainGet
SpecAccum == InitAccum /\ [][NextAccum]_vars

\* The conditions a chain holds: field, operator, operand
Held(c) ==
  UNION {{<<c.query.e[i].k, c.query.e[i].v.e[j].k, c.query.e[i].v.e[j].v>> :
            j \in 1..Len(c.query.e[i].v.e)} : i \in 1..Len(c.query.e)}
Satisfies(doc, conds) ==
  \A t \in conds : Chain_evaluateOperator(Get(doc, t[1]), t[2], t[3])
Selected(docs, conds) == SelectSeq(docs, LAMBDA doc : Satisfies(doc, conds))

\* C22: an operator other than eq called with the field cf selected adds its
\* condition to those the chain holds and takes the place only of the
\* condition of the same operator on cf; selecting a field changes no
\* condition; get() returns exactly the documents, in the order of the
\* collection, that satisfy every condition held.
C22_ConditionsAccumulate ==
  [][/\ \A operator \in AccumOperators, v \in AccumOperands :
          Truthy(chain.currentField) /\ ChainOp({operator}, {v}) =>
            Held(chain') =
              {t \in Held(chain) : <<t[1], t[2]>> /= <<chain.currentField.s, operator>>}
                \cup {<<chain.currentField.s, operator, v>>}
     /\ ChainWhere({f, g}) => Held(chain') = Held(chain)
     /\ ChainGet => last'.docs = Selected(data["users"].docs, Held(chain))]_vars
\* get() on where(f).gt(1).lt(3) with a condition on g took one document of two
C22_Witness ==
  /\ last.op = "get"
  /\ Get(chain.query, f) = Obj(<<P(k_gt, Num(1)), P(k_lt, Num(3))>>)
  /\ Truthy(Get(chain.query, g))
  /\ Len(data["users"].docs) = 2
  /\ Len(last.docs) = 1

\* ---- Harmony.fetch: the builder it returns, held in `chain`
\* fetch(table): a copy of the table and no filter
Harmony_fetch(d, table) ==
  [made |-> TRUE, collectionName |-> table,
   _data |-> IF d[table].has THEN d[table].docs ELSE <<>>, _filters |-> <<>>]
\* where(field, operator, value): the filter is kept for get()
Harmony_where(c, field, operator, value) ==
  [c EXCEPT !._filters = Append(@, [field |-> field, operator |-> operator, value |-> value])]
\* sort, limit and skip work on _data at once; the comparator is the one of
\* Chain.applySorting for the directions "asc" and "desc"
Harmony_sort(c, field, direction) ==
  {[c EXCEPT !._data = sorted] : sorted \in ArraySort(c._data, [field |-> field, direction |-> direction])}
Harmony_limit(c, n) == [c EXCEPT !._data = SliceTo(@, n)]
Harmony_skip(c, n) == [c EXCEPT !._data = SliceFrom(@, n)]
Harmony_passes(item, filter) ==
  LET itemValue == Get(item, filter.field)
  IN CASE filter.operator = "===" -> StrictEquals(itemValue, filter.value)
       [] filter.operator = "!==" -> ~StrictEquals(itemValue, filter.value)
       [] filter.operator = ">" -> Gt(itemValue, filter.value)
       [] filter.operator = ">=" -> Gte(itemValue, filter.value)
       [] filter.operator = "<" -> Lt(itemValue, filter.value)
       [] filter.operator = "<=" -> Lte(itemValue, filter.value)
       [] OTHER -> TRUE
\* get(): every filter in turn, on what _data holds by now
Harmony_get(c) ==
  SelectSeq(c._data, LAMBDA item : \A i \in 1..Len(c._filters) : Harmony_passes(item, c._filters[i]))

MaxFetchDocs == 3
MaxFilters == 1
FetchOperators == {"===", ">", "<=", "~"}
Fetching(c, rec) ==
  /\ chain' = c
  /\ last' = rec
  /\ UNCHANGED <<facade, data, loaded, autoSave, inp, disk, saveTimeout, reported, timers, promises, written, held>>
HarmonyFetch(names) ==
  /\ facade = "Harmony"
  /\ \E table \in names : Fetching(Harmony_fetch(data, table), Call("fetch", table))
FetchWhere(fields, operators, values) ==
  /\ facade = "Harmony" /\ chain.made /\ Len(chain._filters) < MaxFilters
  /\ \E field \in fields, operator \in operators, value \in values :
       Fetching(Harmony_where(chain, field, operator, value), Call("where", chain.collectionName))
FetchSort(fields, directions) ==
  /\ facade = "Harmony" /\ chain.made
  /\ \E field \in fields, direction \in directions :
       \E c \in Harmony_sort(chain, field, direction) :
         Fetching(c, Call("sort", chain.collectionName))
FetchLimit(counts) ==
  /\ facade = "Harmony" /\ chain.made
  /\ \E n \in counts :
       Fetching(Harmony_limit(chain, n), [Call("limit", chain.collectionName) EXCEPT !.count = n])
FetchSkip(counts) ==
  /\ facade = "Harmony" /\ chain.made
  /\ \E n \in counts :
       Fetching(Harmony_skip(chain, n), [Call("skip", chain.collectionName) EXCEPT !.count = n])
FetchGet ==
  /\ facade = "Harmony" /\ chain.made
  /\ Fetching(chain, [Call("get", chain.collectionName) EXCEPT !.docs = Harmony_get(chain)])
InitFetch ==
  /\ facade = "Harmony"
  /\ loaded = TRUE
  /\ autoSave = TRUE
  /\ \E docs \in SeqsUpTo(NumberDocs, MaxFetchDocs) :
       data = [EmptyData EXCEPT !["users"] = Present(Fresh(docs, 0))]
  /\ chain = NoChain
  /\ last = NoOp
  /\ Quiet
  /\ inp = NoInput
NextFetch ==
  \/ HarmonyFetch({"users"})
  \/ FetchWhere({f}, FetchOperators, {Num(2)})
  \/ FetchSort({f}, {"asc", "desc"})
  \/ FetchLimit({1, 2})
  \/ FetchSkip({1})
  \/ FetchGet
SpecFetch == InitFetch /\ [][NextFetch]_vars

\* C23: the where conditions come before skip and limit: on a builder that
\* holds its conditions, skip(s) drops the first s documents of what get()
\* returned before the call and limit(n) keeps the first n of it.
C23_FiltersBeforeSlices ==
  [][/\ \A n \in {1, 2} : FetchLimit({n}) => Harmony_get(chain') = SliceTo(Harmony_get(chain), n)
     /\ \A s \in {1} : FetchSkip({s}) => Harmony_get(chain') = SliceFrom(Harmony_get(chain), s)]_vars

\* ---- Debounced saves, with the timers and the promises of save() explicit
MaxSaves == 3
\* clearTimeout(saveTimeout): the handle is the timer the last call of save set
ClearTimeout_never(ts, handle) == ts
ClearTimeout(ts, handle) == ts \ {handle}
\* fs.writeFile of the serialised data
WriteFile(d) == [writes |-> written.writes + 1, content |-> d]
\* save(): the earlier timer is cleared and a timer is set for this call.  The
\* manager returns a promise that only the callback of this timer settles;
\* Harmony.save returns at once.  With debounce 0 Harmony.save awaits the write.
SaveIsCalled ==
  /\ Len(promises) < MaxSaves
  /\ IF facade = "Harmony" /\ inp.debounce = 0
     THEN /\ timers' = timers
          /\ promises' = Append(promises, IF disk = "ok" THEN "resolved" ELSE "rejected")
          /\ written' = IF disk = "ok" THEN WriteFile(data) ELSE written
     ELSE /\ timers' = ClearTimeout(timers, Len(promises)) \cup {Len(promises) + 1}
          /\ promises' = Append(promises, IF facade = "magic" THEN "pending" ELSE "resolved")
          /\ written' = written
SaveCalled ==
  /\ facade \in {"magic", "Harmony"}
  /\ SaveIsCalled
  /\ last' = [Call("save", "") EXCEPT !.saves = 1]
  /\ UNCHANGED <<facade, data, loaded, autoSave, chain, inp, disk, saveTimeout, reported, held>>
\* A change of the data: it calls save() when autoSave is set
Changed(d, rec) ==
  /\ data' = d
  /\ last' = [rec EXCEPT !.saves = IF autoSave THEN 1 ELSE 0]
  /\ IF autoSave THEN SaveIsCalled ELSE UNCHANGED <<timers, promises, written, held>>
  /\ UNCHANGED <<facade, loaded, autoSave, chain, inp, disk, saveTimeout, reported, held>>
\* The set trap of the manager's proxy
SetTrap(names, values) ==
  /\ facade = "magic" /\ loaded
  /\ \E name \in names, value \in values :
       Changed([data EXCEPT ![name] = Present(value)], Call("set", name))
\* Harmony.clear(table)
HarmonyClear(names) ==
  /\ facade = "Harmony"
  /\ \E table \in names :
       /\ data[table].has
       /\ Changed([data EXCEPT ![table] = Present(<<>>)], Call("clear", table))
\* The callback of a timer: it serialises the data as they are now and writes
\* the file; the manager's callback then settles the promise of its call, a
\* failure of Harmony's saveNow is a rejection nothing handles.
TimerCallback ==
  /\ \E id \in timers :
       /\ timers' = timers \ {id}
       /\ written' = IF disk = "ok" THEN WriteFile(data) ELSE written
       /\ promises' = IF facade = "magic"
                      THEN [promises EXCEPT ![id] = IF disk = "ok" THEN "resolved" ELSE "rejected"]
                      ELSE promises
       /\ reported' = IF facade = "Harmony" /\ disk /= "ok" THEN "unhandledRejection" ELSE reported
  /\ UNCHANGED <<facade, data, loaded, autoSave, chain, last, inp, disk, saveTimeout, held>>
InitDebounce ==
  /\ facade \in {"magic", "Harmony"}
  /\ loaded = TRUE
  /\ autoSave \in BOOLEAN
  /\ data \in {[EmptyData EXCEPT !["users"] = Present(Fresh(docs, 0))] : docs \in {<<>>, <<Doc(Num(1))>>}}
  /\ chain = NoChain
  /\ last = NoOp
  /\ inp \in {[NoInput EXCEPT !.debounce = ms] : ms \in {0, Debounce}}
  /\ disk \in {"ok", "failing"}
  /\ saveTimeout = "none"
  /\ reported = "nothing"
  /\ Idle
NextDebounce ==
  \/ SaveCalled
  \/ SetTrap({"users"}, {<<>>, Fresh(<<Doc(Num(2))>>, 1)})
  \/ HarmonyClear({"users"})
  \/ TimerCallback
SpecDebounce == InitDebounce /\ [][NextDebounce]_vars
\* The event loop runs the callback of a timer that stays set
SpecSettle == SpecDebounce /\ WF_vars(TimerCallback)

Debounced == facade = "magic" \/ inp.debounce > 0
\* C24: with a debounce delay at most one timer is pending, and it is the
\* timer of the last call of save; a call of save writes nothing and leaves
\* its timer pending; the file is written only when a timer runs, once, with
\* the data as they are then, and no timer is left.
C24_SavesCoalesce ==
  [][Debounced =>
       /\ Cardinality(timers') <= 1
       /\ timers' \subseteq {Len(promises')}
       /\ Len(promises') > Len(promises) => written' = written /\ timers' = {Len(promises')}
       /\ timers /= {} /\ Len(promises') = Len(promises) /\ timers' /= timers /\ disk = "ok" =>
            written' /= written
       /\ written' /= written =>
            /\ timers /= {} /\ timers' = {}
            /\ written'.writes = written.writes + 1
            /\ written'.content = data]_vars
\* Two calls of save, then a change that saves nothing, then the one write:
\* it holds the change
C24_Witness ==
  /\ Debounced /\ ~autoSave /\ last.op \in {"set", "clear"}
  /\ Len(promises) = 2 /\ timers = {} /\ written.writes = 1
  /\ written.content = data /\ written.content /= last.pre

Pending(i) == facade = "magic" /\ i <= Len(promises) /\ promises[i] = "pending"
Settled(i) == i <= Len(promises) /\ promises[i] /= "pending"
\* C25: every promise a call of the manager's save() returned is settled in
\* the end, resolved or rejected.
C25_EverySaveSettles == \A i \in 1..MaxSaves : Pending(i) ~> Settled(i)

\* ---- A caller keeps the sequence collection(name) returned
MaxAliasDocs == 2
\* const c = db.collection(name), or await db.find(name, {}): data[name] itself
KeepCollection(names) ==
  /\ facade = "JSONKit" /\ loaded
  /\ \E name \in names :
       /\ data' = Attach(data, name)
       /\ last' = [Call("db.collection", name) EXCEPT !.docs = Coll(name)]
       /\ held' = [name |-> name, same |-> TRUE]
  /\ UNCHANGED <<facade, loaded, autoSave, chain, inp, disk, saveTimeout, reported, timers, promises, written>>
InitAlias ==
  /\ facade = "JSONKit"
  /\ loaded = TRUE
  /\ autoSave \in BOOLEAN
  /\ \E docs \in SeqsUpTo(NumberDocs, MaxAliasDocs) :
       data = [EmptyData EXCEPT !["users"] = Present(Fresh(docs, 0))]
  /\ chain = NoChain
  /\ last = NoOp
  /\ Quiet
  /\ inp = NoInput
NextAlias ==
  \/ KeepCollection(CollNames)
  \/ DbInsert({"users"}, {Doc(Num(1))}, MaxAliasDocs)
  \/ DbUpdate({"users"}, DbQueries, Patches)
  \/ DbUpdateOne({"users"}, DbQueries, Patches)
  \/ DbDelete({"users"}, DbQueries)
  \/ DbDeleteOne({"users"}, DbQueries)
  \/ ClearCollection({"users"})
SpecAlias == InitAlias /\ [][NextAlias]_vars

\* C26: the sequence collection(name) returned is and stays the one
\* data[name] holds, whatever insert, update, updateOne, delete, deleteOne
\* and clear were called since.
C26_ReferenceStaysLive == held.name /= "" => held.same

\* ---- Chains whose fields are selected by where, and, or
MaxSelectDocs == 2
ChainSelect(fields) ==
  /\ chain.made
  /\ \E field \in fields :
       \E c \in {Chain_where(chain, field), Chain_and(chain, field), Chain_or(chain, field)} :
         Builder(c)
InitSelect ==
  /\ facade = "magic"
  /\ loaded = TRUE
  /\ autoSave = TRUE
  /\ \E docs \in SeqsUpTo(AccumDocs, MaxSelectDocs) :
       data = [EmptyData EXCEPT !["users"] = Present(Fresh(docs, 0))]
  /\ chain = Chain_new("users", TRUE)
  /\ last = NoOp
  /\ Quiet
  /\ inp = NoInput
NextSelect ==
  \/ ChainSelect({f, g})
  \/ ChainOp(AccumOperators, AccumOperands)
  \/ ChainGet
  \/ ChainCount
SpecSelect == InitSelect /\ [][NextSelect]_vars

\* The chain but for what or() alone leaves behind
Unmarked(c) == [c EXCEPT !.isOrCondition = FALSE]
====
